---- MODULE Spec2Model ----
(***************************************************************************)
(* The data structures of the repository: the binary search tree of        *)
(* src/binary_tree/binarySearchTree.py, the chaining hash table of         *)
(* src/hashtable/chaining_method.py, the queue of src/queue/queue.py, the  *)
(* stack of src/stack/stack.py, the linear-probing hash table of           *)
(* src/hashtable/Linear_probing.py and the linked lists of                 *)
(* src/linked_list.  Each structure has specifications of its own; the     *)
(* variables of the other structures stay idle in them.                    *)
(*                                                                         *)
(* A tree is a value: None, or a node record [id, data, left, right]       *)
(* whose left and right are trees.  Every node is owned by exactly one     *)
(* parent, so the in-place mutation of the Python objects is the           *)
(* replacement of a field of the record; id is the identity of the Python  *)
(* object (two nodes are the same object iff their ids are equal).         *)
(***************************************************************************)
EXTENDS Integers, Sequences, FiniteSets, TLC

VARIABLES
    root,       \* the caller's reference to the tree: a node or None
    held,       \* ghost: the values added and not removed since
    last,       \* ghost: the last call: [op, arg, pre, out]; in SpecBfs also
                \* the locals of the call in progress
    inserted,   \* ghost: number of insertions, the constructor's included
    duplicates, \* ghost: number of insertions of a value already inserted
    pending,    \* scenario: the values still to insert
    removed,    \* scenario: the values removed so far, in order
    ht,         \* the HashTable object: [size, data]
    ref,        \* ghost: the pairs <<key, value>> set and not deleted since
    q,          \* the Queue object's container, leftmost element first
    enqueued,   \* ghost: every value enqueued, in order
    dequeued,   \* ghost: every value a dequeue removed, in order
    st,         \* the Stack object's container, leftmost element first
    pushed,     \* ghost: every push, in order: [val, live]
    ll          \* the linked list object

vars == <<root, held, last, inserted, duplicates, pending, removed,
          ht, ref, q, enqueued, dequeued, st, pushed, ll>>

\* Largest value drawn as an input; values are 1..MaxVal.
MaxVal == 4

\* Largest number of insertions of the insert-only specification.
MaxInserts == 6

Values == 1..MaxVal

(***************************************************************************)
(* Nodes                                                                   *)
(***************************************************************************)
None == [none |-> TRUE]

BinarySearchTreeNode(id, data) ==
    [id |-> id, data |-> data, left |-> None, right |-> None]

RECURSIVE Ids(_)
Ids(t) == IF t = None THEN {} ELSE {t.id} \cup Ids(t.left) \cup Ids(t.right)

\* The identity of a newly allocated object: one no live node of t has.
NewId(t) == CHOOSE i \in 1..(Cardinality(Ids(t)) + 1) :
                /\ i \notin Ids(t)
                /\ \A j \in 1..(i - 1) : j \in Ids(t)

\* What a call hands back: a returned value or a raised exception.
Returned(x) == <<"return", x>>
Raised(e) == <<"raise", e>>

(***************************************************************************)
(* add_child: the state of self after self.add_child(data); id is the      *)
(* identity of the node the call allocates, if it allocates one.           *)
(***************************************************************************)
\* Faulty variant: the equality test of line 72 left out.
RECURSIVE add_child_no_dup_check(_, _, _)
add_child_no_dup_check(self, data, id) ==
    IF data < self.data
    THEN IF self.left # None
         THEN [self EXCEPT !.left = add_child_no_dup_check(self.left, data, id)]
         ELSE [self EXCEPT !.left = BinarySearchTreeNode(id, data)]
    ELSE IF self.right # None
         THEN [self EXCEPT !.right = add_child_no_dup_check(self.right, data, id)]
         ELSE [self EXCEPT !.right = BinarySearchTreeNode(id, data)]

RECURSIVE add_child(_, _, _)
add_child(self, data, id) ==
    IF self.data = data
    THEN self
    ELSE IF data < self.data
         THEN IF self.left # None
              THEN [self EXCEPT !.left = add_child(self.left, data, id)]
              ELSE [self EXCEPT !.left = BinarySearchTreeNode(id, data)]
         ELSE IF self.right # None
              THEN [self EXCEPT !.right = add_child(self.right, data, id)]
              ELSE [self EXCEPT !.right = BinarySearchTreeNode(id, data)]

(***************************************************************************)
(* search: TRUE, FALSE, or None when neither comparison holds.             *)
(***************************************************************************)
\* Faulty variant: always descends to the left.
RECURSIVE search_left_only(_, _)
search_left_only(self, value) ==
    IF self.data = value
    THEN TRUE
    ELSE IF self.left # None THEN search_left_only(self.left, value) ELSE FALSE

RECURSIVE search(_, _)
search(self, value) ==
    IF self.data = value
    THEN TRUE
    ELSE IF value < self.data
         THEN IF self.left # None THEN search(self.left, value) ELSE FALSE
         ELSE IF value > self.data
              THEN IF self.right # None THEN search(self.right, value) ELSE FALSE
              ELSE None

(***************************************************************************)
(* find_min, find_max                                                      *)
(***************************************************************************)
\* Faulty variant: does not follow the left links.
find_min_root_only(self) == self.data

RECURSIVE find_min(_)
find_min(self) == IF self.left # None THEN find_min(self.left) ELSE self.data

RECURSIVE find_max(_)
find_max(self) == IF self.right # None THEN find_max(self.right) ELSE self.data

(***************************************************************************)
(* remove: the reference self.remove(value) returns, with the state the    *)
(* nodes have after the call.                                              *)
(***************************************************************************)
\* Faulty variant: two children, the successor copied up but not removed.
RECURSIVE remove_keeps_successor(_, _)
remove_keeps_successor(self, value) ==
    IF value < self.data
    THEN IF self.left # None
         THEN [self EXCEPT !.left = remove_keeps_successor(self.left, value)]
         ELSE self
    ELSE IF value > self.data
         THEN IF self.right # None
              THEN [self EXCEPT !.right = remove_keeps_successor(self.right, value)]
              ELSE self
         ELSE IF self.left = None /\ self.right = None
              THEN None
              ELSE IF self.left = None
                   THEN self.right
                   ELSE IF self.right = None
                        THEN self.left
                        ELSE [self EXCEPT !.data = find_min(self.right)]

\* Faulty variant: a search that runs off the tree returns None, not self.
RECURSIVE remove_none_on_miss(_, _)
remove_none_on_miss(self, value) ==
    IF value < self.data
    THEN IF self.left # None
         THEN [self EXCEPT !.left = remove_none_on_miss(self.left, value)]
         ELSE None
    ELSE IF value > self.data
         THEN IF self.right # None
              THEN [self EXCEPT !.right = remove_none_on_miss(self.right, value)]
              ELSE None
         ELSE IF self.left = None /\ self.right = None
              THEN None
              ELSE IF self.left = None
                   THEN self.right
                   ELSE IF self.right = None
                        THEN self.left
                        ELSE LET min_val == find_min(self.right)
                             IN  [self EXCEPT
                                    !.data = min_val,
                                    !.right = remove_none_on_miss(self.right, min_val)]

\* Faulty variant: a matching leaf returns itself, not None.
RECURSIVE remove_leaf_stays(_, _)
remove_leaf_stays(self, value) ==
    IF value < self.data
    THEN IF self.left # None
         THEN [self EXCEPT !.left = remove_leaf_stays(self.left, value)]
         ELSE self
    ELSE IF value > self.data
         THEN IF self.right # None
              THEN [self EXCEPT !.right = remove_leaf_stays(self.right, value)]
              ELSE self
         ELSE IF self.left = None /\ self.right = None
              THEN self
              ELSE IF self.left = None
                   THEN self.right
                   ELSE IF self.right = None
                        THEN self.left
                        ELSE LET min_val == find_min(self.right)
                             IN  [self EXCEPT
                                    !.data = min_val,
                                    !.right = remove_leaf_stays(self.right, min_val)]

RECURSIVE remove(_, _)
remove(self, value) ==
    IF value < self.data
    THEN IF self.left # None
         THEN [self EXCEPT !.left = remove(self.left, value)]
         ELSE self
    ELSE IF value > self.data
         THEN IF self.right # None
              THEN [self EXCEPT !.right = remove(self.right, value)]
              ELSE self
         ELSE IF self.left = None /\ self.right = None
              THEN None
              ELSE IF self.left = None
                   THEN self.right
                   ELSE IF self.right = None
                        THEN self.left
                        ELSE LET min_val == find_min(self.right)
                             IN  [self EXCEPT !.data = min_val,
                                              !.right = remove(self.right, min_val)]

(***************************************************************************)
(* Traversals                                                              *)
(***************************************************************************)
\* Faulty variant: the node appended before its left subtree.
RECURSIVE in_order_root_first(_)
in_order_root_first(self) ==
    LET result1 == <<self.data>>
        result2 == IF self.left # None
                   THEN result1 \o in_order_root_first(self.left)
                   ELSE result1
    IN  IF self.right # None
        THEN result2 \o in_order_root_first(self.right)
        ELSE result2

RECURSIVE in_order_traversal(_)
in_order_traversal(self) ==
    LET result1 == IF self.left # None THEN in_order_traversal(self.left) ELSE <<>>
        result2 == Append(result1, self.data)
    IN  IF self.right # None
        THEN result2 \o in_order_traversal(self.right)
        ELSE result2

\* Faulty variant: the right subtree is visited before the left one.
RECURSIVE pre_order_right_first(_)
pre_order_right_first(self) ==
    LET result1 == <<self.data>>
        result2 == IF self.right # None
                   THEN result1 \o pre_order_right_first(self.right)
                   ELSE result1
    IN  IF self.left # None
        THEN result2 \o pre_order_right_first(self.left)
        ELSE result2

RECURSIVE pre_order_traversal(_)
pre_order_traversal(self) ==
    LET result1 == <<self.data>>
        result2 == IF self.left # None
                   THEN result1 \o pre_order_traversal(self.left)
                   ELSE result1
    IN  IF self.right # None
        THEN result2 \o pre_order_traversal(self.right)
        ELSE result2

RECURSIVE post_order_traversal(_)
post_order_traversal(self) ==
    LET result1 == IF self.left # None THEN post_order_traversal(self.left) ELSE <<>>
        result2 == IF self.right # None
                   THEN result1 \o post_order_traversal(self.right)
                   ELSE result1
    IN  Append(result2, self.data)

\* The while loop of breadth_first_traversal: queue is the deque, results
\* the list built so far.
\* Faulty variant: the right child is never enqueued.
RECURSIVE bfs_loop_skips_right(_, _)
bfs_loop_skips_right(queue, results) ==
    IF queue = <<>>
    THEN results
    ELSE LET node == Head(queue)
             q1 == Tail(queue)
             q2 == IF node.left # None THEN Append(q1, node.left) ELSE q1
         IN  bfs_loop_skips_right(q2, Append(results, node.data))

RECURSIVE bfs_loop(_, _)
bfs_loop(queue, results) ==
    IF queue = <<>>
    THEN results
    ELSE LET node == Head(queue)
             q1 == Tail(queue)
             q2 == IF node.left # None THEN Append(q1, node.left) ELSE q1
             q3 == IF node.right # None THEN Append(q2, node.right) ELSE q2
         IN  bfs_loop(q3, Append(results, node.data))

breadth_first_traversal(self) == bfs_loop(<<self>>, <<>>)

RECURSIVE sum(_)
sum(s) == IF s = <<>> THEN 0 ELSE Head(s) + sum(Tail(s))

calculate_sum(self) == sum(in_order_traversal(self))

(***************************************************************************)
(* Calls.  The caller holds root; a method called on root = None raises    *)
(* AttributeError before any code of the class runs, and changes nothing.  *)
(***************************************************************************)
AttributeError == "AttributeError"

\* Faulty variant: a call on None hands back a value instead of raising.
Call_returns_on_None(op, arg, ret) ==
    [op |-> op, arg |-> arg, pre |-> root, out |-> Returned(ret)]

Call(op, arg, ret) ==
    [op |-> op, arg |-> arg, pre |-> root,
     out |-> IF root = None THEN Raised(AttributeError) ELSE Returned(ret)]

Scenario == <<5, 3, 8, 1, 4, 7, 9>>

NoCounters == inserted' = inserted /\ duplicates' = duplicates

NoScenario == pending' = pending /\ removed' = removed

\* The tree's specifications leave the other structures idle.
TreeOnly == UNCHANGED <<ht, ref, q, enqueued, dequeued, st, pushed, ll>>

TreeOnlyInit ==
    /\ ht = None
    /\ ref = {}
    /\ q = <<>>
    /\ enqueued = <<>>
    /\ dequeued = <<>>
    /\ st = <<>>
    /\ pushed = <<>>
    /\ ll = None

(***************************************************************************)
(* Spec: any sequence of calls on one tree, values drawn from Values.      *)
(***************************************************************************)
Init ==
    /\ \E v \in Values :
          /\ root = BinarySearchTreeNode(NewId(None), v)
          /\ held = {v}
          /\ last = [op |-> "__init__", arg |-> v, pre |-> None,
                     out |-> Returned(None)]
    /\ inserted = 0
    /\ duplicates = 0
    /\ pending = <<>>
    /\ removed = <<>>
    /\ TreeOnlyInit

\* root = BinarySearchTreeNode(v), done by the caller when it holds no tree.
Construct(v) ==
    /\ root = None
    /\ root' = BinarySearchTreeNode(NewId(None), v)
    /\ held' = held \cup {v}
    /\ last' = [op |-> "__init__", arg |-> v, pre |-> root,
                out |-> Returned(None)]
    /\ NoCounters /\ NoScenario /\ TreeOnly

\* root.add_child(v)
AddChild(v) ==
    /\ root' = IF root = None THEN root ELSE add_child(root, v, NewId(root))
    /\ held' = IF root = None THEN held ELSE held \cup {v}
    /\ last' = Call("add_child", v, None)
    /\ NoCounters /\ NoScenario /\ TreeOnly

\* root = root.remove(v)
Remove(v) ==
    /\ root' = IF root = None THEN root ELSE remove(root, v)
    /\ held' = held \ {v}
    /\ last' = Call("remove", v, IF root = None THEN None ELSE remove(root, v))
    /\ NoCounters /\ NoScenario /\ TreeOnly

\* root.search(v)
Search(v) ==
    /\ last' = Call("search", v, IF root = None THEN None ELSE search(root, v))
    /\ UNCHANGED <<root, held>>
    /\ NoCounters /\ NoScenario /\ TreeOnly

\* root.find_min()
FindMin ==
    /\ last' = Call("find_min", 0, IF root = None THEN None ELSE find_min(root))
    /\ UNCHANGED <<root, held>>
    /\ NoCounters /\ NoScenario /\ TreeOnly

\* root.find_max()
FindMax ==
    /\ last' = Call("find_max", 0, IF root = None THEN None ELSE find_max(root))
    /\ UNCHANGED <<root, held>>
    /\ NoCounters /\ NoScenario /\ TreeOnly

Next ==
    \/ \E v \in Values : Construct(v)
    \/ \E v \in Values : AddChild(v)
    \/ \E v \in Values : Remove(v)
    \/ \E v \in Values : Search(v)
    \/ FindMin
    \/ FindMax

Spec == Init /\ [][Next]_vars

(***************************************************************************)
(* Vocabulary of the properties                                            *)
(***************************************************************************)
RECURSIVE ValuesOf(_)
ValuesOf(t) ==
    IF t = None THEN {} ELSE {t.data} \cup ValuesOf(t.left) \cup ValuesOf(t.right)

RECURSIVE NodeCount(_)
NodeCount(t) ==
    IF t = None THEN 0 ELSE 1 + NodeCount(t.left) + NodeCount(t.right)

RECURSIVE Ordered(_)
Ordered(t) ==
    \/ t = None
    \/ /\ \A x \in ValuesOf(t.left) : x < t.data
       /\ \A x \in ValuesOf(t.right) : x > t.data
       /\ Ordered(t.left)
       /\ Ordered(t.right)

NoDuplicates(t) == NodeCount(t) = Cardinality(ValuesOf(t))

Range(s) == {s[i] : i \in 1..Len(s)}

NonDecreasing(s) == \A i \in 1..(Len(s) - 1) : s[i] <= s[i + 1]

HasTwoChildren(t) == t # None /\ t.left # None /\ t.right # None

\* The node of an ordered tree t that holds v, None if there is none.
RECURSIVE NodeOf(_, _)
NodeOf(t, v) ==
    IF t = None THEN None
    ELSE IF t.data = v THEN t
    ELSE IF v < t.data THEN NodeOf(t.left, v) ELSE NodeOf(t.right, v)

\* last is a call of method op that ran on a tree (root was a node).
Ran(op) == last.op = op /\ last.pre # None /\ last.out[1] = "return"

(***************************************************************************)
(* C1: after any sequence of add_child and remove calls (root taking the   *)
(* value remove returns) the tree is empty, or in every node all values of *)
(* the left subtree are smaller than the node's, all values of the right   *)
(* subtree are greater, and no value occurs twice in the tree.             *)
(***************************************************************************)
C1_BSTInvariant == root = None \/ (Ordered(root) /\ NoDuplicates(root))

\* A remove whose value sat in a node with two children, one of them
\* holding its successor below its own left link, and that left a tree.
C1_Witness ==
    /\ Ran("remove")
    /\ HasTwoChildren(NodeOf(last.pre, last.arg))
    /\ NodeOf(last.pre, last.arg).right.left # None
    /\ NodeCount(root) = 3

(***************************************************************************)
(* C2: removing a held value (root := root.remove(v)) leaves a tree whose  *)
(* in-order traversal is sorted and holds the former values but v, one     *)
(* node fewer; the tree is empty exactly when v was the last value, so     *)
(* draining a tree in any order ends with the empty tree at the last       *)
(* removal and not before.                                                 *)
(***************************************************************************)
C2_DrainByRemove ==
    (Ran("remove") /\ last.arg \in ValuesOf(last.pre)) =>
        /\ (root = None) <=> (NodeCount(last.pre) = 1)
        /\ (root = None) <=> (held = {})
        /\ root # None =>
              /\ NonDecreasing(in_order_traversal(root))
              /\ last.arg \notin Range(in_order_traversal(root))
              /\ Range(in_order_traversal(root)) = ValuesOf(last.pre) \ {last.arg}
              /\ Len(in_order_traversal(root)) = Len(in_order_traversal(last.pre)) - 1

\* The last removal of a drain: a tree of one node, emptied.
C2_Witness ==
    /\ Ran("remove")
    /\ last.arg \in ValuesOf(last.pre)
    /\ root = None
    /\ held = {}

(***************************************************************************)
(* C4: add_child(v) with v held anywhere in the tree changes nothing: the  *)
(* same nodes in the same shape, the same node count, the same             *)
(* calculate_sum().                                                        *)
(***************************************************************************)
C4_DuplicateIsNoOp ==
    (Ran("add_child") /\ last.arg \in ValuesOf(last.pre)) =>
        /\ root = last.pre
        /\ NodeCount(root) = NodeCount(last.pre)
        /\ calculate_sum(root) = calculate_sum(last.pre)
        /\ last.out = Returned(None)

\* A duplicate of a value held below the root, in a tree of three nodes.
C4_Witness ==
    /\ Ran("add_child")
    /\ last.arg \in ValuesOf(last.pre)
    /\ last.arg # last.pre.data
    /\ NodeCount(last.pre) >= 3

(***************************************************************************)
(* C5 (as claimed): after any sequence of add_child and remove calls,      *)
(* search(v) returns True exactly when v is held and False, without        *)
(* raising, when it is not.                                                *)
(***************************************************************************)
C5_SearchAsClaimed ==
    last.op = "search" => last.out = Returned(last.arg \in held)

(***************************************************************************)
(* C5 (amended): the same on every tree that is not empty; on the emptied  *)
(* tree (root is None) the call raises AttributeError.                     *)
(***************************************************************************)
C5_SearchIffHeld ==
    /\ root # None => \A v \in Values : search(root, v) = (v \in held)
    /\ last.op = "search" =>
          last.out = IF last.pre = None
                     THEN Raised(AttributeError)
                     ELSE Returned(last.arg \in held)

\* A search that found a value two links below the root.
C5_Witness ==
    /\ Ran("search")
    /\ last.out = Returned(TRUE)
    /\ last.arg \notin {root.data}
    /\ (root.left = None \/ last.arg # root.left.data)
    /\ (root.right = None \/ last.arg # root.right.data)

(***************************************************************************)
(* C6: remove(v) of a value that is not in the tree returns the root node  *)
(* it was called on and leaves every node, link and value as it was.       *)
(***************************************************************************)
C6_RemoveAbsentIsNoOp ==
    (last.op = "remove" /\ last.pre # None /\ last.arg \notin ValuesOf(last.pre)) =>
        /\ last.out = Returned(last.pre)
        /\ root = last.pre
        /\ root.id = last.pre.id

\* An absent value looked for below the root of a tree of three nodes.
C6_Witness ==
    /\ Ran("remove")
    /\ last.arg \notin ValuesOf(last.pre)
    /\ NodeCount(last.pre) >= 3
    /\ NodeCount(root) >= 3

(***************************************************************************)
(* C7: on a tree that is not empty find_min() is the smallest value held   *)
(* and find_max() the largest: the first and the last element of           *)
(* in_order_traversal().                                                   *)
(***************************************************************************)
C7_MinMax ==
    /\ root # None =>
          /\ find_min(root) = in_order_traversal(root)[1]
          /\ find_max(root) = in_order_traversal(root)[Len(in_order_traversal(root))]
          /\ find_min(root) \in held /\ \A v \in held : find_min(root) <= v
          /\ find_max(root) \in held /\ \A v \in held : v <= find_max(root)
    /\ Ran("find_min") => last.out = Returned(find_min(root))
    /\ Ran("find_max") => last.out = Returned(find_max(root))

\* find_min on a tree whose minimum is two links below the root.
C7_Witness ==
    /\ Ran("find_min")
    /\ root.left # None
    /\ root.left.left # None
    /\ last.out = Returned(root.left.left.data)

(***************************************************************************)
(* SpecInsert: a tree built by insertions alone, the insertions counted.   *)
(***************************************************************************)
InitInsert ==
    /\ \E v \in Values :
          /\ root = BinarySearchTreeNode(NewId(None), v)
          /\ held = {v}
          /\ last = [op |-> "__init__", arg |-> v, pre |-> None,
                     out |-> Returned(None)]
    /\ inserted = 1
    /\ duplicates = 0
    /\ pending = <<>>
    /\ removed = <<>>
    /\ TreeOnlyInit

\* root.add_child(v), counted
InsertAddChild(v) ==
    /\ inserted < MaxInserts
    /\ root' = add_child(root, v, NewId(root))
    /\ held' = held \cup {v}
    /\ last' = Call("add_child", v, None)
    /\ inserted' = inserted + 1
    /\ duplicates' = IF v \in held THEN duplicates + 1 ELSE duplicates
    /\ NoScenario /\ TreeOnly

\* The four traversals of root, taken one after the other.
InsertTraverse ==
    /\ last' = Call("traverse", 0,
                    [in_order |-> in_order_traversal(root),
                     pre_order |-> pre_order_traversal(root),
                     post_order |-> post_order_traversal(root),
                     breadth_first |-> breadth_first_traversal(root)])
    /\ UNCHANGED <<root, held>>
    /\ NoCounters /\ NoScenario /\ TreeOnly

NextInsert ==
    \/ \E v \in Values : InsertAddChild(v)
    \/ InsertTraverse

SpecInsert == InitInsert /\ [][NextInsert]_vars

(***************************************************************************)
(* C3: whatever values add_child inserted, in whatever order,              *)
(* in_order_traversal returns a non-decreasing sequence whose elements are *)
(* exactly the distinct values inserted.                                   *)
(***************************************************************************)
C3_InOrderSorted ==
    /\ NonDecreasing(in_order_traversal(root))
    /\ Range(in_order_traversal(root)) = held
    /\ last.op = "traverse" =>
          /\ NonDecreasing(last.out[2].in_order)
          /\ Range(last.out[2].in_order) = held

\* Insertions that were not in sorted order and repeated a value.
C3_Witness ==
    /\ last.op = "traverse"
    /\ duplicates >= 1
    /\ HasTwoChildren(root)
    /\ root.left.right # None
    /\ Len(last.out[2].in_order) = 4

(***************************************************************************)
(* C8: the in-order, pre-order, post-order and breadth-first traversals of *)
(* a tree built by insertions have one length: the number of insertions,   *)
(* the constructor's included, minus the number of duplicate insertions.   *)
(***************************************************************************)
C8_TraversalSizes ==
    /\ Len(in_order_traversal(root)) = inserted - duplicates
    /\ Len(pre_order_traversal(root)) = inserted - duplicates
    /\ Len(post_order_traversal(root)) = inserted - duplicates
    /\ Len(breadth_first_traversal(root)) = inserted - duplicates
    /\ last.op = "traverse" =>
          /\ Len(last.out[2].in_order) = inserted - duplicates
          /\ Len(last.out[2].pre_order) = inserted - duplicates
          /\ Len(last.out[2].post_order) = inserted - duplicates
          /\ Len(last.out[2].breadth_first) = inserted - duplicates

\* Traversals of a tree with nodes on both sides, after duplicates.
C8_Witness ==
    /\ last.op = "traverse"
    /\ duplicates >= 2
    /\ HasTwoChildren(root)
    /\ Len(last.out[2].breadth_first) >= 4
    /\ last.out[2].breadth_first # last.out[2].pre_order

(***************************************************************************)
(* SpecScenario: the values of Scenario inserted in order into an empty    *)
(* tree, then held values removed.                                         *)
(***************************************************************************)
InitScenario ==
    /\ root = None
    /\ held = {}
    /\ last = [op |-> "none", arg |-> 0, pre |-> None, out |-> Returned(None)]
    /\ inserted = 0
    /\ duplicates = 0
    /\ pending = Scenario
    /\ removed = <<>>
    /\ TreeOnlyInit

\* The next value of the scenario: the root's constructor, then add_child.
ScenarioInsert ==
    /\ pending # <<>>
    /\ root' = IF root = None
               THEN BinarySearchTreeNode(NewId(None), Head(pending))
               ELSE add_child(root, Head(pending), NewId(root))
    /\ held' = held \cup {Head(pending)}
    /\ last' = [op |-> IF root = None THEN "__init__" ELSE "add_child",
                arg |-> Head(pending), pre |-> root, out |-> Returned(None)]
    /\ pending' = Tail(pending)
    /\ removed' = removed
    /\ NoCounters /\ TreeOnly

ScenarioFindMin ==
    /\ last' = Call("find_min", 0, IF root = None THEN None ELSE find_min(root))
    /\ UNCHANGED <<root, held>>
    /\ NoCounters /\ NoScenario /\ TreeOnly

ScenarioFindMax ==
    /\ last' = Call("find_max", 0, IF root = None THEN None ELSE find_max(root))
    /\ UNCHANGED <<root, held>>
    /\ NoCounters /\ NoScenario /\ TreeOnly

\* root = root.remove(v), once every value is inserted
ScenarioRemove(v) ==
    /\ pending = <<>>
    /\ v \in held
    /\ root' = remove(root, v)
    /\ held' = held \ {v}
    /\ last' = Call("remove", v, remove(root, v))
    /\ removed' = Append(removed, v)
    /\ pending' = pending
    /\ NoCounters /\ TreeOnly

NextScenario ==
    \/ ScenarioInsert
    \/ ScenarioFindMin
    \/ ScenarioFindMax
    \/ \E v \in Range(Scenario) : ScenarioRemove(v)

SpecScenario == InitScenario /\ [][NextScenario]_vars

(***************************************************************************)
(* C9: 5, 3, 8, 1, 4, 7, 9 inserted in that order into an empty tree give  *)
(* the in-order traversal 1, 3, 4, 5, 7, 8, 9, find_min() = 1 and          *)
(* find_max() = 9; after remove(5) the in-order traversal is               *)
(* 1, 3, 4, 7, 8, 9.                                                       *)
(***************************************************************************)
C9_Scenario ==
    /\ (pending = <<>> /\ removed = <<>>) =>
          /\ in_order_traversal(root) = <<1, 3, 4, 5, 7, 8, 9>>
          /\ find_min(root) = 1
          /\ find_max(root) = 9
          /\ last.op = "find_min" => last.out = Returned(1)
          /\ last.op = "find_max" => last.out = Returned(9)
    /\ (pending = <<>> /\ removed = <<5>>) =>
          in_order_traversal(root) = <<1, 3, 4, 7, 8, 9>>

\* remove(5) done: the root node stayed and took its successor's value.
C9_Witness ==
    /\ pending = <<>>
    /\ removed = <<5>>
    /\ last.op = "remove"
    /\ last.pre.data = 5
    /\ root.id = last.pre.id
    /\ root.data = 7

(***************************************************************************)
(* C10 (as claimed): find_min and find_max called on an empty tree fail    *)
(* with a PreconditionError.                                               *)
(***************************************************************************)
C10_PreconditionErrorAsClaimed ==
    (last.op \in {"find_min", "find_max"} /\ last.pre = None) =>
        last.out = Raised("PreconditionError")

(***************************************************************************)
(* C10 (amended): find_min and find_max called on an empty tree (root is   *)
(* None) fail with an AttributeError; they return no value and leave the   *)
(* tree empty.                                                             *)
(***************************************************************************)
C10_EmptyTreeRaises ==
    (last.op \in {"find_min", "find_max"} /\ last.pre = None) =>
        /\ last.out = Raised(AttributeError)
        /\ root = None

\* find_max called after the last value was removed.
C10_Witness ==
    /\ last.op = "find_max"
    /\ last.pre = None
    /\ last.out[1] = "raise"
    /\ held = {}

(***************************************************************************)
(* Chaining hash table of src/hashtable/chaining_method.py.                *)
(*                                                                         *)
(* A key is a string, modelled as the sequence of its characters; a pair   *)
(* is the two-element list <<key, value>>; self.data is the sequence of    *)
(* the buckets, Python's data[index] being data[index + 1] here.           *)
(***************************************************************************)

\* Largest table size the constructor is given in SpecHash.
MaxSize == 3

\* Largest value stored in SpecHash; values are 1..MaxHashValue.
MaxHashValue == 2

\* HashTable(): the default size.
DefaultSize == 100

\* The value __getitem__ returns for a key it does not find.
NotFound == -1

\* ord(c) of the characters the keys are made of.
ord(c) ==
    CASE c = "a" -> 97
      [] c = "b" -> 98
      [] c = "d" -> 100
      [] c = "e" -> 101
      [] c = "g" -> 103
      [] c = "m" -> 109
      [] c = "n" -> 110

HashTable(size) == [size |-> size, data |-> [i \in 1..size |-> <<>>]]

\* The for loop of get_hash over the characters still to read.
RECURSIVE hash_loop(_, _)
hash_loop(key, hash_key) ==
    IF key = <<>>
    THEN hash_key
    ELSE hash_loop(Tail(key), hash_key + ord(Head(key)))

\* Faulty variant: the sum is not reduced modulo the size.
get_hash_no_modulo(self, key) == hash_loop(key, 0)

get_hash(self, key) == hash_loop(key, 0) % self.size

\* Faulty variant: the bucket's pairs are never compared with key.
setitem_loop_always_appends(bucket, i, key, value) ==
    Append(bucket, <<key, value>>)

\* The for loop of __setitem__ from position i on, and the append after it.
RECURSIVE setitem_loop(_, _, _, _)
setitem_loop(bucket, i, key, value) ==
    IF i > Len(bucket)
    THEN Append(bucket, <<key, value>>)
    ELSE IF bucket[i][1] = key
         THEN [bucket EXCEPT ![i][2] = value]
         ELSE setitem_loop(bucket, i + 1, key, value)

\* Faulty variant: every pair of the bucket is taken for the key's.
__setitem___overwrites_first(self, key, value) ==
    LET index == get_hash(self, key)
        bucket == self.data[index + 1]
    IN  [self EXCEPT !.data[index + 1] =
            IF bucket = <<>>
            THEN <<<<key, value>>>>
            ELSE [bucket EXCEPT ![1][2] = value]]

\* Faulty variant: the buckets are one shared list (data = [[]] * size), so
\* the pair shows in every bucket.
__setitem___shared_buckets(self, key, value) ==
    LET index == get_hash(self, key)
        bucket == self.data[index + 1]
    IN  [self EXCEPT !.data =
            [i \in 1..self.size |-> setitem_loop(bucket, 1, key, value)]]

\* self after self[key] = value
__setitem__(self, key, value) ==
    LET index == get_hash(self, key)
        bucket == self.data[index + 1]
    IN  [self EXCEPT !.data[index + 1] = setitem_loop(bucket, 1, key, value)]

\* Faulty variant: the value of the bucket's first pair, whatever its key.
getitem_loop_first_pair(bucket, i, key) ==
    IF bucket = <<>> THEN NotFound ELSE bucket[1][2]

\* The for loop of __getitem__ from position i on, and the return after it.
RECURSIVE getitem_loop(_, _, _)
getitem_loop(bucket, i, key) ==
    IF i > Len(bucket)
    THEN NotFound
    ELSE IF bucket[i][1] = key
         THEN bucket[i][2]
         ELSE getitem_loop(bucket, i + 1, key)

\* self[key]
__getitem__(self, key) ==
    LET index == get_hash(self, key)
        bucket == self.data[index + 1]
    IN  getitem_loop(bucket, 1, key)

\* del bucket[i], i counted from 1
DelAt(bucket, i) ==
    [j \in 1..(Len(bucket) - 1) |-> IF j < i THEN bucket[j] ELSE bucket[j + 1]]

\* Faulty variant: the whole bucket is dropped with the key.
delitem_loop_clears_bucket(bucket, i, key) ==
    IF \E j \in 1..Len(bucket) : bucket[j][1] = key THEN <<>> ELSE bucket

\* Faulty variant: a key that is not found takes the first pair with it.
RECURSIVE delitem_loop_drops_first_on_miss(_, _, _)
delitem_loop_drops_first_on_miss(bucket, i, key) ==
    IF i > Len(bucket)
    THEN IF bucket = <<>> THEN bucket ELSE DelAt(bucket, 1)
    ELSE IF bucket[i][1] = key
         THEN DelAt(bucket, i)
         ELSE delitem_loop_drops_first_on_miss(bucket, i + 1, key)

\* The for loop of __delitem__ from position i on.
RECURSIVE delitem_loop(_, _, _)
delitem_loop(bucket, i, key) ==
    IF i > Len(bucket)
    THEN bucket
    ELSE IF bucket[i][1] = key
         THEN DelAt(bucket, i)
         ELSE delitem_loop(bucket, i + 1, key)

\* self after del self[key]
__delitem__(self, key) ==
    LET index == get_hash(self, key)
        bucket == self.data[index + 1]
    IN  [self EXCEPT !.data[index + 1] = delitem_loop(bucket, 1, key)]

(***************************************************************************)
(* SpecHash: any sequence of calls on a table of size 1..MaxSize, keys     *)
(* drawn from HashKeys ("", "ab", "ba", "d") and values from HashValues.   *)
(***************************************************************************)
HashKeys == {<<>>, <<"a", "b">>, <<"b", "a">>, <<"d">>}

HashValues == 1..MaxHashValue

\* The hash table's specifications leave the other structures idle.
HashOnly ==
    UNCHANGED <<root, held, inserted, duplicates, pending, removed,
                q, enqueued, dequeued, st, pushed, ll>>

HashOnlyInit ==
    /\ root = None
    /\ held = {}
    /\ inserted = 0
    /\ duplicates = 0
    /\ pending = <<>>
    /\ removed = <<>>
    /\ q = <<>>
    /\ enqueued = <<>>
    /\ dequeued = <<>>
    /\ st = <<>>
    /\ pushed = <<>>
    /\ ll = None

\* The ghost record of a call on ht: pre and was are ht and ref before it,
\* resets says that the call before it was a set of the same key.
HashCall(op, key, value, ret) ==
    [op |-> op, arg |-> key, val |-> value, pre |-> ht, was |-> ref,
     resets |-> (op = "set" /\ last.op = "set" /\ last.arg = key),
     out |-> Returned(ret)]

Unbind(pairs, key) == {p \in pairs : p[1] # key}

InitHash ==
    /\ \E size \in 1..MaxSize : ht = HashTable(size)
    /\ ref = {}
    /\ last = [op |-> "__init__", arg |-> <<>>, val |-> 0, pre |-> None,
               was |-> {}, resets |-> FALSE, out |-> Returned(None)]
    /\ HashOnlyInit

\* ht[key] = value
SetItem(key, value) ==
    /\ ht' = __setitem__(ht, key, value)
    /\ ref' = Unbind(ref, key) \cup {<<key, value>>}
    /\ last' = HashCall("set", key, value, None)
    /\ HashOnly

\* ht[key]
GetItem(key) ==
    /\ last' = HashCall("get", key, 0, __getitem__(ht, key))
    /\ UNCHANGED <<ht, ref>>
    /\ HashOnly

\* del ht[key]
DelItem(key) ==
    /\ ht' = __delitem__(ht, key)
    /\ ref' = Unbind(ref, key)
    /\ last' = HashCall("del", key, 0, None)
    /\ HashOnly

\* ht.get_hash(key)
GetHash(key) ==
    /\ last' = HashCall("get_hash", key, 0, get_hash(ht, key))
    /\ UNCHANGED <<ht, ref>>
    /\ HashOnly

NextHash ==
    \/ \E key \in HashKeys, value \in HashValues : SetItem(key, value)
    \/ \E key \in HashKeys : GetItem(key)
    \/ \E key \in HashKeys : DelItem(key)
    \/ \E key \in HashKeys : GetHash(key)

SpecHash == InitHash /\ [][NextHash]_vars

(***************************************************************************)
(* Vocabulary of the hash table's properties                               *)
(***************************************************************************)
\* The places <<bucket, position>> of the table that hold a pair of key.
PlacesOf(self, key) ==
    {pl \in (1..self.size) \X (1..Cardinality(HashKeys) + 1) :
        /\ pl[2] <= Len(self.data[pl[1]])
        /\ self.data[pl[1]][pl[2]][1] = key}

RECURSIVE SumLens(_, _)
SumLens(data, n) == IF n = 0 THEN 0 ELSE SumLens(data, n - 1) + Len(data[n])

\* The number of pairs the table stores.
PairCount(self) == SumLens(self.data, Len(self.data))

\* The bucket the code looks for key in.
BucketOf(self, key) == self.data[get_hash(self, key) + 1]

Bound(pairs, key) == \E p \in pairs : p[1] = key

\* The sum of the character codes of key, last character first.
RECURSIVE CodeSum(_, _)
CodeSum(key, n) == IF n = 0 THEN 0 ELSE ord(key[n]) + CodeSum(key, n - 1)

(***************************************************************************)
(* C11: whatever the table held, right after set(k, v) get(k) returns v.   *)
(***************************************************************************)
C11_SetThenGet ==
    last.op = "set" => __getitem__(ht, last.arg) = last.val

\* A set of a new key into a bucket that held two other keys.
C11_Witness ==
    /\ last.op = "set"
    /\ ~Bound(last.was, last.arg)
    /\ Len(BucketOf(last.pre, last.arg)) = 2
    /\ Len(BucketOf(ht, last.arg)) = 3
    /\ __getitem__(ht, last.arg) = last.val

(***************************************************************************)
(* C12: set(k, v1), then set(k, v2), then get(k) returns v2, and the       *)
(* second set leaves the number of pairs in the table as it was; the same  *)
(* holds of every set of a key that is bound.                              *)
(***************************************************************************)
C12_Overwrite ==
    (last.op = "set" /\ (last.resets \/ Bound(last.was, last.arg))) =>
        /\ __getitem__(ht, last.arg) = last.val
        /\ PairCount(ht) = PairCount(last.pre)

\* set(k, v1) then set(k, v2), v1 # v2, k second in a bucket of two.
C12_Witness ==
    /\ last.op = "set"
    /\ last.resets
    /\ <<last.arg, last.val>> \notin last.was
    /\ Len(BucketOf(ht, last.arg)) = 2
    /\ BucketOf(ht, last.arg)[2] = <<last.arg, last.val>>

(***************************************************************************)
(* C13: after delete(k) get(k) returns the sentinel -1, and get(k') of     *)
(* every other key k', those of k's bucket included, returns what it       *)
(* returned before the delete.                                             *)
(***************************************************************************)
C13_DeleteFrame ==
    last.op = "del" =>
        /\ __getitem__(ht, last.arg) = NotFound
        /\ \A k \in HashKeys \ {last.arg} :
              __getitem__(ht, k) = __getitem__(last.pre, k)

\* A delete of the middle pair of a bucket of three.
C13_Witness ==
    /\ last.op = "del"
    /\ Len(BucketOf(last.pre, last.arg)) = 3
    /\ BucketOf(last.pre, last.arg)[2][1] = last.arg
    /\ Len(BucketOf(ht, last.arg)) = 2

(***************************************************************************)
(* C14: after any sequence of set and delete calls no key has more than    *)
(* one pair in the whole table.                                            *)
(***************************************************************************)
C14_OnePairPerKey ==
    \A k \in HashKeys : Cardinality(PlacesOf(ht, k)) <= 1

\* A key set again, last of its bucket, in a table that holds three pairs.
C14_Witness ==
    /\ last.op = "set"
    /\ Bound(last.was, last.arg)
    /\ PairCount(ht) = 3
    /\ Cardinality(ref) = 3
    /\ Len(BucketOf(ht, last.arg)) >= 2
    /\ BucketOf(ht, last.arg)[Len(BucketOf(ht, last.arg))][1] = last.arg

(***************************************************************************)
(* C15: a call on an absent key does not raise: get(k) returns -1,         *)
(* delete(k) returns nothing, and both leave the table as it was.          *)
(***************************************************************************)
C15_AbsentKey ==
    (last.op \in {"get", "del"} /\ ~Bound(last.was, last.arg)) =>
        /\ last.out[1] = "return"
        /\ last.op = "get" => last.out = Returned(NotFound)
        /\ last.op = "del" => last.out = Returned(None)
        /\ ht = last.pre

\* A delete of an absent key whose bucket holds two other keys.
C15_Witness ==
    /\ last.op = "del"
    /\ ~Bound(last.was, last.arg)
    /\ Len(BucketOf(ht, last.arg)) = 2

(***************************************************************************)
(* C17: get_hash(key) is the sum of the character codes of key modulo the  *)
(* size of the table, an index in 0..size-1, for every key, the empty      *)
(* string included.                                                        *)
(***************************************************************************)
C17_HashInRange ==
    /\ \A k \in HashKeys :
          /\ get_hash(ht, k) = CodeSum(k, Len(k)) % ht.size
          /\ get_hash(ht, k) \in 0..(ht.size - 1)
    /\ get_hash(ht, <<>>) = 0
    /\ last.op = "get_hash" =>
          /\ last.out = Returned(CodeSum(last.arg, Len(last.arg)) % ht.size)
          /\ last.out[2] \in 0..(ht.size - 1)

\* get_hash of a key whose code sum is larger than the size.
C17_Witness ==
    /\ last.op = "get_hash"
    /\ Len(last.arg) = 2
    /\ ht.size = MaxSize
    /\ last.out[2] < CodeSum(last.arg, Len(last.arg))

(***************************************************************************)
(* SpecNameMean: a table of the default size, the keys "name", "mean",     *)
(* "amen" (one code sum, 417) and "age", the values "A" and "B".           *)
(***************************************************************************)
name == <<"n", "a", "m", "e">>

mean == <<"m", "e", "a", "n">>

NameMeanKeys == {name, mean, <<"a", "m", "e", "n">>, <<"a", "g", "e">>}

InitNameMean ==
    /\ ht = HashTable(DefaultSize)
    /\ ref = {}
    /\ last = [op |-> "__init__", arg |-> <<>>, val |-> 0, pre |-> None,
               was |-> {}, resets |-> FALSE, out |-> Returned(None)]
    /\ HashOnlyInit

NextNameMean ==
    \/ \E key \in NameMeanKeys, value \in {"A", "B"} : SetItem(key, value)
    \/ \E key \in NameMeanKeys : GetItem(key)
    \/ \E key \in NameMeanKeys : DelItem(key)
    \/ \E key \in NameMeanKeys : GetHash(key)

SpecNameMean == InitNameMean /\ [][NextNameMean]_vars

(***************************************************************************)
(* C16: in a table of capacity 100 two distinct keys with equal code sums  *)
(* ("name" and "mean") map to one bucket, and after set("name", "A") and   *)
(* set("mean", "B") get("name") is "A" and get("mean") is "B".             *)
(***************************************************************************)
C16_NameMean ==
    /\ ht.size = 100
    /\ \A k1, k2 \in NameMeanKeys :
          (k1 # k2 /\ CodeSum(k1, Len(k1)) = CodeSum(k2, Len(k2))) =>
              get_hash(ht, k1) = get_hash(ht, k2)
    /\ CodeSum(name, 4) = CodeSum(mean, 4)
    /\ get_hash(ht, name) = get_hash(ht, mean)
    /\ (<<name, "A">> \in ref /\ <<mean, "B">> \in ref) =>
          /\ __getitem__(ht, name) = "A"
          /\ __getitem__(ht, mean) = "B"
          /\ \E i, j \in 1..Len(BucketOf(ht, name)) :
                /\ BucketOf(ht, name)[i] = <<name, "A">>
                /\ BucketOf(ht, name)[j] = <<mean, "B">>

\* set("name", "A") then set("mean", "B") on the empty table, then get.
C16_Witness ==
    /\ last.op = "get"
    /\ last.arg = mean
    /\ ht.data[18] = <<<<name, "A">>, <<mean, "B">>>>
    /\ PairCount(ht) = 2
    /\ last.out = Returned("B")

(***************************************************************************)
(* Queue of src/queue/queue.py and Stack of src/stack/stack.py.            *)
(*                                                                         *)
(* Both keep a collections.deque in self.container, modelled as the        *)
(* sequence of its elements from left to right.  A method is modelled by   *)
(* what it hands back (out) and the object after the call (self).          *)
(***************************************************************************)

\* Largest number of enqueue calls in SpecQueue.
MaxEnqueued == 4

\* Largest number of push calls in SpecStack.
MaxPushed == 4

\* The values enqueued and pushed.
Items == {"a", "b", "c"}

\* deque()
deque == <<>>

\* d after d.appendleft(x)
deque_appendleft(d, x) == <<x>> \o d

\* d after d.append(x)
deque_append(d, x) == Append(d, x)

\* d.pop() on a deque that is not empty: the rightmost element, removed
deque_pop(d) == [ret |-> d[Len(d)], d |-> SubSeq(d, 1, Len(d) - 1)]

\* Not a call of the source: d.popleft(), used by a faulty variant.
deque_popleft(d) == [ret |-> d[1], d |-> SubSeq(d, 2, Len(d))]

\* Queue()
Queue == [container |-> deque]

\* Faulty variant: the element is appended on the side dequeue pops.
Queue_enqueue_appends_right(self, data) ==
    [self EXCEPT !.container = deque_append(self.container, data)]

\* self after self.enqueue(data)
Queue_enqueue(self, data) ==
    [self EXCEPT !.container = deque_appendleft(self.container, data)]

Queue_is_empty(self) == Len(self.container) = 0

Queue_size(self) == Len(self.container)

\* Faulty variant: no test for the empty queue; deque.pop raises IndexError.
Queue_dequeue_unguarded(self) ==
    IF Len(self.container) = 0
    THEN [out |-> Raised("IndexError"), self |-> self]
    ELSE [out |-> Returned(deque_pop(self.container).ret),
          self |-> [self EXCEPT !.container = deque_pop(self.container).d]]

\* self.dequeue()
Queue_dequeue(self) ==
    IF Queue_is_empty(self)
    THEN [out |-> Returned("Queue Underflow"), self |-> self]
    ELSE [out |-> Returned(deque_pop(self.container).ret),
          self |-> [self EXCEPT !.container = deque_pop(self.container).d]]

\* self.peek()
Queue_peek(self) ==
    IF Queue_is_empty(self)
    THEN [out |-> Returned("Queue is Empty"), self |-> self]
    ELSE [out |-> Returned(self.container[Len(self.container)]), self |-> self]

(***************************************************************************)
(* SpecQueue: any interleaving of calls on one queue, at most MaxEnqueued  *)
(* enqueue calls.                                                          *)
(***************************************************************************)
QueueOnly ==
    UNCHANGED <<root, held, inserted, duplicates, pending, removed,
                ht, ref, st, pushed, ll>>

QueueOnlyInit ==
    /\ root = None
    /\ held = {}
    /\ inserted = 0
    /\ duplicates = 0
    /\ pending = <<>>
    /\ removed = <<>>
    /\ ht = None
    /\ ref = {}
    /\ st = <<>>
    /\ pushed = <<>>
    /\ ll = None

InitQueue ==
    /\ q = Queue
    /\ enqueued = <<>>
    /\ dequeued = <<>>
    /\ last = [op |-> "__init__", arg |-> "", pre |-> Queue,
               out |-> Returned(None)]
    /\ QueueOnlyInit

\* q.enqueue(data)
Enqueue(data) ==
    /\ Len(enqueued) < MaxEnqueued
    /\ q' = Queue_enqueue(q, data)
    /\ enqueued' = Append(enqueued, data)
    /\ dequeued' = dequeued
    /\ last' = [op |-> "enqueue", arg |-> data, pre |-> q,
                out |-> Returned(None)]
    /\ QueueOnly

\* q.dequeue(); a dequeue of a queue that held a value is a successful one
Dequeue ==
    /\ q' = Queue_dequeue(q).self
    /\ enqueued' = enqueued
    /\ dequeued' = IF Len(enqueued) > Len(dequeued)
                   THEN Append(dequeued, Queue_dequeue(q).out[2])
                   ELSE dequeued
    /\ last' = [op |-> "dequeue", arg |-> "", pre |-> q,
                out |-> Queue_dequeue(q).out]
    /\ QueueOnly

\* q.peek()
QueuePeek ==
    /\ q' = Queue_peek(q).self
    /\ last' = [op |-> "peek", arg |-> "", pre |-> q, out |-> Queue_peek(q).out]
    /\ UNCHANGED <<enqueued, dequeued>>
    /\ QueueOnly

\* q.is_empty()
QueueIsEmpty ==
    /\ last' = [op |-> "is_empty", arg |-> "", pre |-> q,
                out |-> Returned(Queue_is_empty(q))]
    /\ UNCHANGED <<q, enqueued, dequeued>>
    /\ QueueOnly

\* q.size()
QueueSize ==
    /\ last' = [op |-> "size", arg |-> "", pre |-> q,
                out |-> Returned(Queue_size(q))]
    /\ UNCHANGED <<q, enqueued, dequeued>>
    /\ QueueOnly

NextQueue ==
    \/ \E data \in Items : Enqueue(data)
    \/ Dequeue
    \/ QueuePeek
    \/ QueueIsEmpty
    \/ QueueSize

SpecQueue == InitQueue /\ [][NextQueue]_vars

(***************************************************************************)
(* Vocabulary of the queue's and the stack's properties                    *)
(***************************************************************************)
Reverse(s) == [i \in 1..Len(s) |-> s[Len(s) + 1 - i]]

(***************************************************************************)
(* C18: the queue is FIFO: over any interleaving of enqueue and dequeue    *)
(* calls the values the successful dequeues returned are the values        *)
(* enqueued, in the order of their enqueue (the values not yet returned    *)
(* wait in that order); peek returns what the next dequeue would return    *)
(* and changes nothing.                                                    *)
(***************************************************************************)
C18_FIFO ==
    /\ Len(dequeued) <= Len(enqueued)
    /\ dequeued = SubSeq(enqueued, 1, Len(dequeued))
    /\ Reverse(q.container) = SubSeq(enqueued, Len(dequeued) + 1, Len(enqueued))
    /\ (last.op = "dequeue" /\ ~Queue_is_empty(last.pre)) =>
          last.out = Returned(enqueued[Len(dequeued)])
    /\ last.op = "peek" =>
          /\ q = last.pre
          /\ last.out[1] = "return"
          /\ ~Queue_is_empty(q) =>
                /\ last.out = Queue_dequeue(q).out
                /\ last.out = Returned(enqueued[Len(dequeued) + 1])

\* Enqueues and dequeues interleaved: "a" and "b" came out in that order,
\* "c", enqueued after the first dequeue, waits.
C18_Witness ==
    /\ last.op = "dequeue"
    /\ enqueued = <<"a", "b", "c">>
    /\ dequeued = <<"a", "b">>
    /\ last.pre.container = <<"c", "b">>
    /\ q.container = <<"c">>

(***************************************************************************)
(* C19: on an empty queue dequeue returns "Queue Underflow" and peek       *)
(* returns "Queue is Empty", neither raises, and the queue stays empty:    *)
(* size() is 0 and is_empty() is True.                                     *)
(***************************************************************************)
C19_EmptyQueue ==
    (last.op \in {"dequeue", "peek"} /\ Len(last.pre.container) = 0) =>
        /\ last.op = "dequeue" => last.out = Returned("Queue Underflow")
        /\ last.op = "peek" => last.out = Returned("Queue is Empty")
        /\ q = last.pre
        /\ Queue_size(q) = 0
        /\ Queue_is_empty(q)

\* A dequeue of a queue that two dequeues had emptied.
C19_Witness ==
    /\ last.op = "dequeue"
    /\ Len(enqueued) = 2
    /\ Len(dequeued) = 2
    /\ Len(last.pre.container) = 0
    /\ last.out = Returned("Queue Underflow")

(***************************************************************************)
(* Stack                                                                   *)
(***************************************************************************)
\* Stack()
Stack == [container |-> deque]

\* self after self.push(data)
Stack_push(self, data) ==
    [self EXCEPT !.container = deque_append(self.container, data)]

Stack_is_empty(self) == Len(self.container) = 0

Stack_size(self) == Len(self.container)

\* Faulty variant: the element is taken from the left end of the deque.
Stack_pop_takes_oldest(self) ==
    IF Stack_is_empty(self)
    THEN [out |-> Returned("Stack Underflow"), self |-> self]
    ELSE [out |-> Returned(deque_popleft(self.container).ret),
          self |-> [self EXCEPT !.container = deque_popleft(self.container).d]]

\* self.pop()
Stack_pop(self) ==
    IF Stack_is_empty(self)
    THEN [out |-> Returned("Stack Underflow"), self |-> self]
    ELSE [out |-> Returned(deque_pop(self.container).ret),
          self |-> [self EXCEPT !.container = deque_pop(self.container).d]]

\* self.peek()
Stack_peek(self) ==
    IF Stack_is_empty(self)
    THEN [out |-> Returned("Stack is Empty"), self |-> self]
    ELSE [out |-> Returned(self.container[Len(self.container)]), self |-> self]

(***************************************************************************)
(* SpecStack: any interleaving of calls on one stack, at most MaxPushed    *)
(* push calls.  pushed records every push; an entry is live until a pop    *)
(* takes it, and a pop takes the last live entry.                          *)
(***************************************************************************)
Live(p) == {i \in 1..Len(p) : p[i].live}

\* The most recent push that no pop has taken; 0 if there is none.
TopLive(p) ==
    IF Live(p) = {}
    THEN 0
    ELSE CHOOSE i \in Live(p) : \A j \in Live(p) : j <= i

StackOnly ==
    UNCHANGED <<root, held, inserted, duplicates, pending, removed,
                ht, ref, q, enqueued, dequeued, ll>>

StackOnlyInit ==
    /\ root = None
    /\ held = {}
    /\ inserted = 0
    /\ duplicates = 0
    /\ pending = <<>>
    /\ removed = <<>>
    /\ ht = None
    /\ ref = {}
    /\ q = <<>>
    /\ enqueued = <<>>
    /\ dequeued = <<>>
    /\ ll = None

\* The ghost record of a call on st: pre and was are st and pushed before it.
StackCall(op, data, out) ==
    [op |-> op, arg |-> data, pre |-> st, was |-> pushed, out |-> out]

InitStack ==
    /\ st = Stack
    /\ pushed = <<>>
    /\ last = [op |-> "__init__", arg |-> "", pre |-> Stack, was |-> <<>>,
               out |-> Returned(None)]
    /\ StackOnlyInit

\* st.push(data)
Push(data) ==
    /\ Len(pushed) < MaxPushed
    /\ st' = Stack_push(st, data)
    /\ pushed' = Append(pushed, [val |-> data, live |-> TRUE])
    /\ last' = StackCall("push", data, Returned(None))
    /\ StackOnly

\* st.pop()
Pop ==
    /\ st' = Stack_pop(st).self
    /\ pushed' = IF TopLive(pushed) = 0
                 THEN pushed
                 ELSE [pushed EXCEPT ![TopLive(pushed)].live = FALSE]
    /\ last' = StackCall("pop", "", Stack_pop(st).out)
    /\ StackOnly

\* st.peek()
StackPeek ==
    /\ st' = Stack_peek(st).self
    /\ pushed' = pushed
    /\ last' = StackCall("peek", "", Stack_peek(st).out)
    /\ StackOnly

\* st.is_empty()
StackIsEmpty ==
    /\ last' = StackCall("is_empty", "", Returned(Stack_is_empty(st)))
    /\ UNCHANGED <<st, pushed>>
    /\ StackOnly

\* st.size()
StackSize ==
    /\ last' = StackCall("size", "", Returned(Stack_size(st)))
    /\ UNCHANGED <<st, pushed>>
    /\ StackOnly

NextStack ==
    \/ \E data \in Items : Push(data)
    \/ Pop
    \/ StackPeek
    \/ StackIsEmpty
    \/ StackSize

SpecStack == InitStack /\ [][NextStack]_vars

(***************************************************************************)
(* C20: the stack is LIFO: over any interleaving of push and pop calls a   *)
(* pop on a stack that is not empty returns the most recently pushed value *)
(* that no pop has returned yet and makes size() one less; a pop on an     *)
(* empty stack returns "Stack Underflow" and leaves the stack empty.       *)
(***************************************************************************)
C20_LIFO ==
    /\ Stack_size(st) = Cardinality(Live(pushed))
    /\ (last.op = "pop" /\ ~Stack_is_empty(last.pre)) =>
          /\ TopLive(last.was) # 0
          /\ last.out = Returned(last.was[TopLive(last.was)].val)
          /\ Stack_size(st) = Stack_size(last.pre) - 1
    /\ (last.op = "pop" /\ Stack_is_empty(last.pre)) =>
          /\ last.out = Returned("Stack Underflow")
          /\ st = last.pre
          /\ Stack_is_empty(st)
          /\ Stack_size(st) = 0

\* push a, push b, pop, push c, pop, pop: the last pop returns "a".
C20_Witness ==
    /\ last.op = "pop"
    /\ last.was = <<[val |-> "a", live |-> TRUE], [val |-> "b", live |-> FALSE],
                    [val |-> "c", live |-> FALSE]>>
    /\ last.out = Returned("a")
    /\ Stack_is_empty(st)

(***************************************************************************)
(* Linear-probing hash table of src/hashtable/Linear_probing.py.           *)
(*                                                                         *)
(* The class is named HashTable as the chaining one is; its definitions    *)
(* carry the prefix LP_ here.  self.data is the sequence of the slots,     *)
(* Python's data[index] being data[index + 1]; a slot is None or the       *)
(* two-element list [key, value], a record [key, value] here.  The table   *)
(* is held in ht, as the chaining table is in its own specifications.      *)
(***************************************************************************)

\* Largest table size the constructor is given in SpecProbe.
MaxProbeSize == 3

\* Largest value stored in SpecProbe; values are 1..MaxProbeValue.
MaxProbeValue == 2

\* The list [key, value] a slot holds.
LP_Pair(key, value) == [key |-> key, value |-> value]

LP_HashTable(size) == [size |-> size, data |-> [i \in 1..size |-> None]]

\* The for loop of get_hash over the characters still to read.
RECURSIVE LP_hash_loop(_, _)
LP_hash_loop(key, hash_key) ==
    IF key = <<>>
    THEN hash_key
    ELSE LP_hash_loop(Tail(key), hash_key + ord(Head(key)))

LP_get_hash(self, key) == LP_hash_loop(key, 0) % self.size

\* A call that never returns: its loop goes round for ever.
Diverged == <<"diverge", None>>

\* Faulty variant: the loop does not look for the key, it only looks for an
\* empty slot.
RECURSIVE LP_setitem_loop_no_update(_, _, _, _, _)
LP_setitem_loop_no_update(self, index, key, value, passed) ==
    IF self.data[index + 1] = None
    THEN [out |-> Returned(None),
          self |-> [self EXCEPT !.data[index + 1] = LP_Pair(key, value)]]
    ELSE IF passed + 1 = self.size
    THEN [out |-> Diverged, self |-> self]
    ELSE LP_setitem_loop_no_update(self, (index + 1) % self.size, key, value,
                                   passed + 1)

\* The while loop of __setitem__ from slot index on, and the insertion after
\* it; passed is the number of slots the loop has passed over.  The loop
\* writes nothing before it ends: once it has passed over every slot of the
\* table, none of them None or holding key, it is back at the slot it
\* started from with the table as it was, and goes round for ever.
RECURSIVE LP_setitem_loop(_, _, _, _, _)
LP_setitem_loop(self, index, key, value, passed) ==
    IF self.data[index + 1] = None
    THEN [out |-> Returned(None),
          self |-> [self EXCEPT !.data[index + 1] = LP_Pair(key, value)]]
    ELSE IF self.data[index + 1].key = key
    THEN [out |-> Returned(None),
          self |-> [self EXCEPT !.data[index + 1] = LP_Pair(key, value)]]
    ELSE IF passed + 1 = self.size
    THEN [out |-> Diverged, self |-> self]
    ELSE LP_setitem_loop(self, (index + 1) % self.size, key, value,
                         passed + 1)

\* self[key] = value: [out, self], the outcome and the table after it.
LP___setitem__(self, key, value) ==
    LP_setitem_loop(self, LP_get_hash(self, key), key, value, 0)

\* The while loop of __getitem__ from slot index on: None is falsy, a list of
\* two elements is truthy whatever it holds.  It diverges as the loop of
\* __setitem__ does.
RECURSIVE LP_getitem_loop(_, _, _, _)
LP_getitem_loop(self, index, key, passed) ==
    IF self.data[index + 1] = None
    THEN Returned(NotFound)
    ELSE IF self.data[index + 1].key = key
    THEN Returned(self.data[index + 1].value)
    ELSE IF passed + 1 = self.size
    THEN Diverged
    ELSE LP_getitem_loop(self, (index + 1) % self.size, key, passed + 1)

\* self[key]: the outcome of the call.
LP___getitem__(self, key) ==
    LP_getitem_loop(self, LP_get_hash(self, key), key, 0)

\* del self[key]: the table after it.
LP___delitem__(self, key) ==
    [self EXCEPT !.data[LP_get_hash(self, key) + 1] = None]

(***************************************************************************)
(* SpecProbe: any sequence of calls on a table of size 1..MaxProbeSize,    *)
(* keys drawn from HashKeys ("", "ab", "ba", "d") and values from          *)
(* ProbeValues.  A call that does not return leaves the program in it: no  *)
(* call follows.  The ghost ref of the chaining table stays idle.          *)
(***************************************************************************)
ProbeValues == 1..MaxProbeValue

\* The ghost record of a call on ht: pre is ht before it.
ProbeCall(op, key, value, out) ==
    [op |-> op, arg |-> key, val |-> value, pre |-> ht, out |-> out]

\* The program is not inside a call that never returns.
Running == last.out[1] # "diverge"

InitProbe ==
    /\ \E size \in 1..MaxProbeSize : ht = LP_HashTable(size)
    /\ ref = {}
    /\ last = [op |-> "__init__", arg |-> <<>>, val |-> 0, pre |-> None,
               out |-> Returned(None)]
    /\ HashOnlyInit

\* ht[key] = value
ProbeSetItem(key, value) ==
    /\ Running
    /\ LET call == LP___setitem__(ht, key, value)
       IN  /\ ht' = call.self
           /\ last' = ProbeCall("set", key, value, call.out)
    /\ UNCHANGED ref
    /\ HashOnly

\* ht[key]
ProbeGetItem(key) ==
    /\ Running
    /\ last' = ProbeCall("get", key, 0, LP___getitem__(ht, key))
    /\ UNCHANGED <<ht, ref>>
    /\ HashOnly

\* del ht[key]
ProbeDelItem(key) ==
    /\ Running
    /\ ht' = LP___delitem__(ht, key)
    /\ UNCHANGED ref
    /\ last' = ProbeCall("del", key, 0, Returned(None))
    /\ HashOnly

NextProbe ==
    \/ \E key \in HashKeys, value \in ProbeValues : ProbeSetItem(key, value)
    \/ \E key \in HashKeys : ProbeGetItem(key)
    \/ \E key \in HashKeys : ProbeDelItem(key)

SpecProbe == InitProbe /\ [][NextProbe]_vars

\* Some slot of the table is empty.
HasFreeSlot(self) == \E i \in 1..self.size : self.data[i] = None

\* The keys the slots of the table hold.
KeysIn(self) ==
    {self.data[i].key : i \in {j \in 1..self.size : self.data[j] # None}}

(***************************************************************************)
(* C21: in the linear-probing table, after delete(k) get(k) returns the    *)
(* sentinel -1 and get(k') of every other key k', those colliding with k   *)
(* included, returns what it returned before the delete.                   *)
(* The code empties the slot get_hash(k) whichever key it holds.            *)
(***************************************************************************)
C21_ProbeDeleteFrameAsClaimed ==
    last.op = "del" =>
        /\ LP___getitem__(ht, last.arg) = Returned(NotFound)
        /\ \A k \in HashKeys \ {last.arg} :
              LP___getitem__(ht, k) = LP___getitem__(last.pre, k)

(***************************************************************************)
(* C22: in the linear-probing table, after any sequence of calls, set(k,   *)
(* v) leaves get(k') as it was for every key k' other than k.              *)
(* The code fills a slot a delete emptied, which brings back the keys      *)
(* behind it, and fills the last free slot, after which the get of an      *)
(* absent key does not return.                                             *)
(***************************************************************************)
C22_ProbeSetFrameAsClaimed ==
    last.op = "set" =>
        \A k \in HashKeys \ {last.arg} :
            LP___getitem__(ht, k) = LP___getitem__(last.pre, k)

(***************************************************************************)
(* C23: in the linear-probing table, in every state reached by set and     *)
(* delete calls that has a free slot, set(k, v) returns and the get(k)     *)
(* that follows it returns v.                                              *)
(***************************************************************************)
C23_ProbeSetThenGet ==
    (last.op = "set" /\ HasFreeSlot(last.pre)) =>
        /\ last.out = Returned(None)
        /\ LP___getitem__(ht, last.arg) = Returned(last.val)

\* A set whose key was stored already, behind a slot that a delete emptied:
\* the new pair goes into the emptied slot, before the old one.
C23_Witness ==
    /\ last.op = "set"
    /\ HasFreeSlot(ht)
    /\ last.arg \in KeysIn(last.pre)
    /\ last.pre.data[LP_get_hash(ht, last.arg) + 1] = None
    /\ ht.data[LP_get_hash(ht, last.arg) + 1] = LP_Pair(last.arg, last.val)
    /\ \E i \in 1..ht.size :
          /\ ht.data[i] # None
          /\ ht.data[i].key = last.arg
          /\ ht.data[i].value # last.val

(***************************************************************************)
(* C24: in the linear-probing table, __setitem__ and __getitem__ return    *)
(* for every key in every reachable state of the table, also when every    *)
(* slot is occupied by other keys.                                         *)
(* In the code neither loop ends on a table with no empty slot and no slot *)
(* holding the key.                                                        *)
(***************************************************************************)
C24_ProbeTerminatesAsClaimed ==
    last.op \in {"set", "get"} => last.out[1] = "return"

(***************************************************************************)
(* Singly linked list of src/linked_list/sll.py (src/linked_list/single.py *)
(* holds the same code); its definitions carry the prefix sll_.            *)
(*                                                                         *)
(* A node is a record [data, next], next being a node or None; no method   *)
(* makes two nodes share a successor, so the chain from head is a value.   *)
(* A local variable that points into the chain (itr, prev) is the number   *)
(* of next steps from head to its node; NoNode stands for a variable that  *)
(* was set to None, and a variable that ran off the end points at None.    *)
(***************************************************************************)

\* Longest list the specifications of the lists build.
MaxListLen == 4

\* Largest value stored in a list; values are 0..MaxListVal, 0 being falsy.
MaxListVal == 2

ListValues == 0..MaxListVal

\* A reference to a node that holds None.
NoNode == -1

sll_Node(data, next) == [data |-> data, next |-> next]

sll_LinkedList == [head |-> None]

\* The node a local variable p points at, from node n on.
RECURSIVE sll_at(_, _)
sll_at(n, p) ==
    IF p < 0 \/ n = None THEN None
    ELSE IF p = 0 THEN n
    ELSE sll_at(n.next, p - 1)

\* The chain from n on after the assignment p.next = x.
RECURSIVE sll_set_next(_, _, _)
sll_set_next(n, p, x) ==
    IF p = 0
    THEN [n EXCEPT !.next = x]
    ELSE [n EXCEPT !.next = sll_set_next(n.next, p - 1, x)]

\* bool(x) of a stored value is False.
Falsy(x) == x = 0

\* The while loop of length.
RECURSIVE sll_length_loop(_, _)
sll_length_loop(itr, count) ==
    IF itr = None THEN count ELSE sll_length_loop(itr.next, count + 1)

sll_length(self) == sll_length_loop(self.head, 0)

\* The values __iter__ yields, in order.
RECURSIVE sll_iter_loop(_)
sll_iter_loop(itr) ==
    IF itr = None THEN <<>> ELSE <<itr.data>> \o sll_iter_loop(itr.next)

sll___iter__(self) == sll_iter_loop(self.head)

sll_is_empty(self) == self.head = None

\* The while loop of get_last: [out, prev, itr].
RECURSIVE sll_get_last_loop(_, _, _)
sll_get_last_loop(self, prev, itr) ==
    IF sll_at(self.head, itr) = None
    THEN [out |-> Raised(AttributeError), prev |-> prev, itr |-> itr]
    ELSE IF sll_at(self.head, itr).next # None
    THEN sll_get_last_loop(self, itr, itr + 1)
    ELSE [out |-> Returned(None), prev |-> prev, itr |-> itr]

sll_get_last(self) == sll_get_last_loop(self, NoNode, 0)

\* Every method below gives [out, self]: the outcome and the list after it.
sll_insert_at_beg(self, value) ==
    [out |-> Returned(None),
     self |-> [self EXCEPT !.head = sll_Node(value, self.head)]]

sll_insert_at_end(self, value) ==
    IF self.head = None
    THEN [out |-> Returned(None),
          self |-> [self EXCEPT !.head = sll_Node(value, None)]]
    ELSE LET got == sll_get_last(self)
         IN  [out |-> Returned(None),
              self |-> [self EXCEPT !.head =
                           sll_set_next(self.head, got.itr,
                                        sll_Node(value, None))]]

\* The while loop of insert_at_position: the outcome, itr when it ends.
RECURSIVE sll_insert_loop(_, _, _, _)
sll_insert_loop(self, itr, count, pos) ==
    IF count # pos
    THEN IF sll_at(self.head, itr) = None
         THEN Raised(AttributeError)
         ELSE sll_insert_loop(self, itr + 1, count + 1, pos)
    ELSE Returned(itr)

sll_insert_at_position(self, pos, value) ==
    LET walk == sll_insert_loop(self, 0, 0, pos)
    IN  IF walk[1] = "raise"
        THEN [out |-> walk, self |-> self]
        ELSE IF sll_at(self.head, walk[2]) = None
        THEN [out |-> Raised(AttributeError), self |-> self]
        ELSE [out |-> Returned(None),
              self |-> [self EXCEPT !.head =
                  sll_set_next(self.head, walk[2],
                      sll_Node(value, sll_at(self.head, walk[2]).next))]]

sll_delete(self) ==
    LET got == sll_get_last(self)
    IN  IF got.out[1] = "raise"
        THEN [out |-> got.out, self |-> self]
        ELSE IF sll_at(self.head, got.prev) = None
        THEN [out |-> Raised(AttributeError), self |-> self]
        ELSE [out |-> Returned(None),
              self |-> [self EXCEPT !.head =
                           sll_set_next(self.head, got.prev, None)]]

\* The while loop of delete_at_position: the outcome, itr when it ends.
RECURSIVE sll_delete_loop(_, _, _, _)
sll_delete_loop(self, itr, count, pos) ==
    IF count + 1 # pos
    THEN IF sll_at(self.head, itr) = None
         THEN Raised(AttributeError)
         ELSE sll_delete_loop(self, itr + 1, count + 1, pos)
    ELSE Returned(itr)

sll_delete_at_position(self, pos) ==
    LET walk == sll_delete_loop(self, 0, 0, pos)
        node == sll_at(self.head, walk[2])
    IN  IF walk[1] = "raise"
        THEN [out |-> walk, self |-> self]
        ELSE IF node = None
        THEN [out |-> Raised(AttributeError), self |-> self]
        ELSE IF Falsy(node.data)
        THEN [out |-> Returned(None), self |-> self]
        ELSE [out |-> Returned(None),
              self |-> [self EXCEPT !.head =
                  sll_set_next(self.head, walk[2],
                      IF node.next # None THEN node.next.next ELSE None)]]

(***************************************************************************)
(* SpecSll: any sequence of calls on one singly linked list of at most     *)
(* MaxListLen nodes, values drawn from ListValues and positions from       *)
(* Positions.  A caller may catch an exception and go on.                  *)
(***************************************************************************)
Positions == 0..MaxListLen

\* The lists' specifications leave the other structures idle.
ListOnly ==
    UNCHANGED <<root, held, inserted, duplicates, pending, removed,
                ht, ref, q, enqueued, dequeued, st, pushed>>

ListOnlyInit ==
    /\ root = None
    /\ held = {}
    /\ inserted = 0
    /\ duplicates = 0
    /\ pending = <<>>
    /\ removed = <<>>
    /\ ht = None
    /\ ref = {}
    /\ q = <<>>
    /\ enqueued = <<>>
    /\ dequeued = <<>>
    /\ st = <<>>
    /\ pushed = <<>>

\* The ghost record of a call on ll: pre is ll before it.
ListCall(op, pos, value, out) ==
    [op |-> op, pos |-> pos, val |-> value, pre |-> ll, out |-> out]

InitSll ==
    /\ ll = sll_LinkedList
    /\ last = [op |-> "__init__", pos |-> 0, val |-> 0, pre |-> None,
               out |-> Returned(None)]
    /\ ListOnlyInit

\* ll.insert_at_beg(value)
SllInsertAtBeg(value) ==
    /\ sll_length(ll) < MaxListLen
    /\ ll' = sll_insert_at_beg(ll, value).self
    /\ last' = ListCall("insert_at_beg", 0, value,
                        sll_insert_at_beg(ll, value).out)
    /\ ListOnly

\* ll.insert_at_end(value)
SllInsertAtEnd(value) ==
    /\ sll_length(ll) < MaxListLen
    /\ ll' = sll_insert_at_end(ll, value).self
    /\ last' = ListCall("insert_at_end", 0, value,
                        sll_insert_at_end(ll, value).out)
    /\ ListOnly

\* ll.insert_at_position(pos, value)
SllInsertAtPosition(pos, value) ==
    /\ sll_length(ll) < MaxListLen
    /\ ll' = sll_insert_at_position(ll, pos, value).self
    /\ last' = ListCall("insert_at_position", pos, value,
                        sll_insert_at_position(ll, pos, value).out)
    /\ ListOnly

\* ll.delete()
SllDelete ==
    /\ ll' = sll_delete(ll).self
    /\ last' = ListCall("delete", 0, 0, sll_delete(ll).out)
    /\ ListOnly

\* ll.delete_at_position(pos)
SllDeleteAtPosition(pos) ==
    /\ ll' = sll_delete_at_position(ll, pos).self
    /\ last' = ListCall("delete_at_position", pos, 0,
                        sll_delete_at_position(ll, pos).out)
    /\ ListOnly

NextSll ==
    \/ \E value \in ListValues : SllInsertAtBeg(value)
    \/ \E value \in ListValues : SllInsertAtEnd(value)
    \/ \E pos \in Positions, value \in ListValues :
          SllInsertAtPosition(pos, value)
    \/ SllDelete
    \/ \E pos \in Positions : SllDeleteAtPosition(pos)

SpecSll == InitSll /\ [][NextSll]_vars

\* The sequence s with x put at 0-indexed position pos.
InsertedAt(s, pos, x) ==
    SubSeq(s, 1, pos) \o <<x>> \o SubSeq(s, pos + 1, Len(s))

\* The sequence s without its element at 0-indexed position pos.
RemovedAt(s, pos) == SubSeq(s, 1, pos) \o SubSeq(s, pos + 2, Len(s))

(***************************************************************************)
(* C25: in the singly linked list, insert_at_position(pos, value) with     *)
(* 0 <= pos < length puts value at 0-indexed position pos: the elements    *)
(* formerly at pos and after move one place right and the length grows by  *)
(* one.                                                                    *)
(* The code links the new node after the node at pos, at position pos + 1. *)
(***************************************************************************)
C25_InsertAtPositionAsClaimed ==
    (/\ last.op = "insert_at_position"
     /\ last.pos < sll_length(last.pre)) =>
        /\ last.out = Returned(None)
        /\ sll___iter__(ll) = InsertedAt(sll___iter__(last.pre), last.pos,
                                         last.val)
        /\ sll_length(ll) = sll_length(last.pre) + 1

(***************************************************************************)
(* C26: in the singly linked list, delete_at_position(pos) with            *)
(* 0 <= pos < length removes exactly the node at 0-indexed position pos,   *)
(* whatever the nodes hold: the length falls by one and the other elements *)
(* keep their order.                                                       *)
(* The code raises AttributeError for pos = 0 and does nothing when the    *)
(* node before pos holds a falsy value.                                    *)
(***************************************************************************)
C26_DeleteAtPositionAsClaimed ==
    (/\ last.op = "delete_at_position"
     /\ last.pos < sll_length(last.pre)) =>
        /\ last.out = Returned(None)
        /\ sll___iter__(ll) = RemovedAt(sll___iter__(last.pre), last.pos)
        /\ sll_length(ll) = sll_length(last.pre) - 1

(***************************************************************************)
(* C27: in the singly linked list, delete() removes the last node of any   *)
(* non-empty list: the length falls by exactly one and the elements left   *)
(* are the former ones without the last, so a list of one element becomes  *)
(* empty.                                                                  *)
(* The code raises AttributeError on a list of one element.                *)
(***************************************************************************)
C27_DeleteLastAsClaimed ==
    (last.op = "delete" /\ ~sll_is_empty(last.pre)) =>
        /\ last.out = Returned(None)
        /\ sll_length(ll) = sll_length(last.pre) - 1
        /\ sll___iter__(ll) =
              SubSeq(sll___iter__(last.pre), 1, sll_length(last.pre) - 1)

(***************************************************************************)
(* Circular singly linked list of src/linked_list/csll.py; its definitions *)
(* carry the prefix csll_.                                                 *)
(*                                                                         *)
(* The nodes form a cycle, so the list is a heap: ll is [head, tail,       *)
(* nodes], nodes maps the identity of every live Node object to its        *)
(* fields [data, next], and a reference is an identity or NoNode.  An      *)
(* object that no reference reaches any more is freed.                     *)
(***************************************************************************)

\* The identity of a newly allocated Node: the smallest one not in use.
NewRef(nodes) ==
    CHOOSE i \in 1..(Cardinality(DOMAIN nodes) + 1) :
        /\ i \notin DOMAIN nodes
        /\ \A j \in 1..(i - 1) : j \in DOMAIN nodes

csll_Node(data) == [data |-> data, next |-> NoNode]

csll_LinkedList == [head |-> NoNode, tail |-> NoNode, nodes |-> <<>>]

\* The objects that the references of refs reach by next.
RECURSIVE csll_reached(_, _)
csll_reached(nodes, refs) ==
    LET more == (refs \cup {nodes[i].next : i \in refs}) \ {NoNode}
    IN  IF more = refs THEN refs ELSE csll_reached(nodes, more)

\* self once the objects it does not reach are freed.
csll_collect(self) ==
    LET live == csll_reached(self.nodes, {self.head, self.tail} \ {NoNode})
    IN  [self EXCEPT !.nodes = [i \in live |-> self.nodes[i]]]

\* Every method below gives [out, self]: the outcome and the list after it.
csll_insert_at_beg(self, value) ==
    LET node == NewRef(self.nodes)
        nodes == self.nodes @@ (node :> csll_Node(value))
    IN  [out |-> Returned(None),
         self |->
            IF self.head = NoNode
            THEN [head |-> node, tail |-> node,
                  nodes |-> [nodes EXCEPT ![node].next = node]]
            ELSE [head |-> node, tail |-> self.tail,
                  nodes |-> [nodes EXCEPT ![node].next = self.head,
                                          ![self.tail].next = node]]]

csll_insert_at_end(self, value) ==
    LET node == NewRef(self.nodes)
        nodes == self.nodes @@ (node :> csll_Node(value))
    IN  [out |-> Returned(None),
         self |->
            IF self.tail = NoNode
            THEN [head |-> node, tail |-> node,
                  nodes |-> [nodes EXCEPT ![node].next = node]]
            ELSE [head |-> self.head, tail |-> node,
                  nodes |-> [nodes EXCEPT ![self.tail].next = node,
                                          ![node].next = self.head]]]

\* The while loop of delete: the outcome, itr when it ends.  passed is the
\* set of the nodes itr has been on: a loop that comes back to one of them
\* without having found tail goes round for ever.
RECURSIVE csll_delete_loop(_, _, _)
csll_delete_loop(self, itr, passed) ==
    IF itr = NoNode THEN Raised(AttributeError)
    ELSE IF itr \in passed THEN Diverged
    ELSE IF self.nodes[itr].next # self.tail
    THEN csll_delete_loop(self, self.nodes[itr].next, passed \cup {itr})
    ELSE Returned(itr)

csll_delete(self) ==
    LET walk == csll_delete_loop(self, self.head, {})
    IN  IF walk[1] # "return"
        THEN [out |-> walk, self |-> self]
        ELSE [out |-> Returned(None),
              self |-> csll_collect(
                  [head |-> self.head, tail |-> walk[2],
                   nodes |-> [self.nodes EXCEPT ![walk[2]].next = self.head]])]

\* The while loop of length: itr is truthy unless it is None.
RECURSIVE csll_length_loop(_, _, _)
csll_length_loop(self, itr, count) ==
    IF itr = NoNode THEN count
    ELSE IF itr = self.tail THEN count + 1
    ELSE csll_length_loop(self, self.nodes[itr].next, count + 1)

csll_length(self) == csll_length_loop(self, self.head, 0)

csll_is_empty(self) == self.head = NoNode

\* The values __iter__ yields, in order.
RECURSIVE csll_iter_loop(_, _)
csll_iter_loop(self, itr) ==
    IF itr = NoNode THEN <<>>
    ELSE IF itr = self.tail THEN <<self.nodes[itr].data>>
    ELSE <<self.nodes[itr].data>>
         \o csll_iter_loop(self, self.nodes[itr].next)

csll___iter__(self) == csll_iter_loop(self, self.head)

(***************************************************************************)
(* SpecCsll: any sequence of calls on one circular singly linked list of   *)
(* at most MaxListLen nodes, values drawn from ListValues.                 *)
(***************************************************************************)
InitCsll ==
    /\ ll = csll_LinkedList
    /\ last = [op |-> "__init__", pos |-> 0, val |-> 0, pre |-> None,
               out |-> Returned(None)]
    /\ ListOnlyInit

\* ll.insert_at_beg(value)
CsllInsertAtBeg(value) ==
    /\ csll_length(ll) < MaxListLen
    /\ ll' = csll_insert_at_beg(ll, value).self
    /\ last' = ListCall("insert_at_beg", 0, value,
                        csll_insert_at_beg(ll, value).out)
    /\ ListOnly

\* ll.insert_at_end(value)
CsllInsertAtEnd(value) ==
    /\ csll_length(ll) < MaxListLen
    /\ ll' = csll_insert_at_end(ll, value).self
    /\ last' = ListCall("insert_at_end", 0, value,
                        csll_insert_at_end(ll, value).out)
    /\ ListOnly

\* ll.delete()
CsllDelete ==
    /\ ll' = csll_delete(ll).self
    /\ last' = ListCall("delete", 0, 0, csll_delete(ll).out)
    /\ ListOnly

NextCsll ==
    \/ \E value \in ListValues : CsllInsertAtBeg(value)
    \/ \E value \in ListValues : CsllInsertAtEnd(value)
    \/ CsllDelete

SpecCsll == InitCsll /\ [][NextCsll]_vars

(***************************************************************************)
(* C28: in the circular singly linked list, delete() removes the last node *)
(* of any non-empty list: the length falls by exactly one (a list of one   *)
(* element becomes empty), the former second-to-last node becomes tail,    *)
(* and tail.next is head afterwards.                                       *)
(* The code leaves a list of one element as it is.                         *)
(***************************************************************************)
C28_CircularDeleteAsClaimed ==
    (last.op = "delete" /\ ~csll_is_empty(last.pre)) =>
        /\ last.out = Returned(None)
        /\ csll_length(ll) = csll_length(last.pre) - 1
        /\ (csll_length(last.pre) = 1 => csll_is_empty(ll))
        /\ (csll_length(last.pre) > 1 =>
              /\ last.pre.nodes[ll.tail].next = last.pre.tail
              /\ ll.nodes[ll.tail].next = ll.head)

(***************************************************************************)
(* Circular doubly linked list of src/linked_list/cdll.py; its definitions *)
(* carry the prefix cdll_.  The list is a heap as the circular singly      *)
(* linked one is, a node being [data, next, prev].                         *)
(***************************************************************************)
cdll_Node(data) == [data |-> data, next |-> NoNode, prev |-> NoNode]

CircularDoublyLinkedList == [head |-> NoNode, tail |-> NoNode, nodes |-> <<>>]

\* The objects that the references of refs reach by next and prev.
RECURSIVE cdll_reached(_, _)
cdll_reached(nodes, refs) ==
    LET more == (refs \cup {nodes[i].next : i \in refs}
                      \cup {nodes[i].prev : i \in refs}) \ {NoNode}
    IN  IF more = refs THEN refs ELSE cdll_reached(nodes, more)

\* self once the objects it does not reach are freed.
cdll_collect(self) ==
    LET live == cdll_reached(self.nodes, {self.head, self.tail} \ {NoNode})
    IN  [self EXCEPT !.nodes = [i \in live |-> self.nodes[i]]]

\* Every method below gives the list after the call; all of them return
\* None.
cdll_insert_at_beg(self, value) ==
    LET node == NewRef(self.nodes)
        nodes == self.nodes @@ (node :> cdll_Node(value))
    IN  IF self.head = NoNode
        THEN [head |-> node, tail |-> node,
              nodes |-> [nodes EXCEPT ![node].next = node,
                                      ![node].prev = node]]
        ELSE [head |-> node, tail |-> self.tail,
              nodes |-> [nodes EXCEPT ![node].next = self.head,
                                      ![node].prev = self.tail,
                                      ![self.head].prev = node,
                                      ![self.tail].next = node]]

cdll_insert_at_end(self, value) ==
    LET node == NewRef(self.nodes)
        nodes == self.nodes @@ (node :> cdll_Node(value))
    IN  IF self.head = NoNode
        THEN [head |-> node, tail |-> node,
              nodes |-> [nodes EXCEPT ![node].next = node,
                                      ![node].prev = node]]
        ELSE [head |-> self.head, tail |-> node,
              nodes |-> [nodes EXCEPT ![node].prev = self.tail,
                                      ![node].next = self.head,
                                      ![self.tail].next = node,
                                      ![self.head].prev = node]]

\* Faulty variant: head.prev is left pointing at the removed node.
cdll_delete_keeps_head_prev(self) ==
    IF self.head = NoNode THEN self
    ELSE IF self.head = self.tail
    THEN cdll_collect([self EXCEPT !.head = NoNode, !.tail = NoNode])
    ELSE LET tail == self.nodes[self.tail].prev
         IN  cdll_collect(
                 [head |-> self.head, tail |-> tail,
                  nodes |-> [self.nodes EXCEPT ![tail].next = self.head]])

cdll_delete(self) ==
    IF self.head = NoNode THEN self
    ELSE IF self.head = self.tail
    THEN cdll_collect([self EXCEPT !.head = NoNode, !.tail = NoNode])
    ELSE LET tail == self.nodes[self.tail].prev
         IN  cdll_collect(
                 [head |-> self.head, tail |-> tail,
                  nodes |-> [self.nodes EXCEPT ![tail].next = self.head,
                                               ![self.head].prev = tail]])

\* The while loop of length.
RECURSIVE cdll_length_loop(_, _, _)
cdll_length_loop(self, itr, count) ==
    IF self.nodes[itr].next # self.head
    THEN cdll_length_loop(self, self.nodes[itr].next, count + 1)
    ELSE count

cdll_length(self) ==
    IF self.head = NoNode THEN 0 ELSE cdll_length_loop(self, self.head, 1)

(***************************************************************************)
(* SpecCdll: any sequence of calls on one circular doubly linked list of   *)
(* at most MaxListLen nodes, values drawn from ListValues.                 *)
(***************************************************************************)
InitCdll ==
    /\ ll = CircularDoublyLinkedList
    /\ last = [op |-> "__init__", pos |-> 0, val |-> 0, pre |-> None,
               out |-> Returned(None)]
    /\ ListOnlyInit

\* cdll.insert_at_beg(value)
CdllInsertAtBeg(value) ==
    /\ cdll_length(ll) < MaxListLen
    /\ ll' = cdll_insert_at_beg(ll, value)
    /\ last' = ListCall("insert_at_beg", 0, value, Returned(None))
    /\ ListOnly

\* cdll.insert_at_end(value)
CdllInsertAtEnd(value) ==
    /\ cdll_length(ll) < MaxListLen
    /\ ll' = cdll_insert_at_end(ll, value)
    /\ last' = ListCall("insert_at_end", 0, value, Returned(None))
    /\ ListOnly

\* cdll.delete()
CdllDelete ==
    /\ ll' = cdll_delete(ll)
    /\ last' = ListCall("delete", 0, 0, Returned(None))
    /\ ListOnly

NextCdll ==
    \/ \E value \in ListValues : CdllInsertAtBeg(value)
    \/ \E value \in ListValues : CdllInsertAtEnd(value)
    \/ CdllDelete

SpecCdll == InitCdll /\ [][NextCdll]_vars

(***************************************************************************)
(* C29: after any sequence of insert_at_beg, insert_at_end and delete      *)
(* calls on the circular doubly linked list, head and tail are both None,  *)
(* or the list is circular in both directions: tail.next is head,          *)
(* head.prev is tail and n.next.prev is n for every node n; a delete on    *)
(* the empty list changes nothing.                                         *)
(***************************************************************************)
C29_CircularBothWays ==
    /\ \/ ll.head = NoNode /\ ll.tail = NoNode
       \/ /\ ll.head # NoNode
          /\ ll.tail # NoNode
          /\ ll.nodes[ll.tail].next = ll.head
          /\ ll.nodes[ll.head].prev = ll.tail
          /\ \A n \in DOMAIN ll.nodes :
                /\ ll.nodes[n].next \in DOMAIN ll.nodes
                /\ ll.nodes[ll.nodes[n].next].prev = n
    /\ (last.op = "delete" /\ last.pre.head = NoNode) => ll = last.pre

\* A delete on a list of three nodes or more, built from both ends.
C29_Witness ==
    /\ last.op = "delete"
    /\ cdll_length(last.pre) >= 3
    /\ cdll_length(ll) = cdll_length(last.pre) - 1
    /\ ll.tail # last.pre.tail
    /\ ll.head > ll.tail

(***************************************************************************)
(* The cases of remove (binary search tree, specification Spec)            *)
(***************************************************************************)
\* The node of t whose identity is id, None if there is none.
RECURSIVE NodeWithId(_, _)
NodeWithId(t, id) ==
    IF t = None THEN None
    ELSE IF t.id = id THEN t
    ELSE IF NodeWithId(t.left, id) # None THEN NodeWithId(t.left, id)
    ELSE NodeWithId(t.right, id)

\* The node of t that has the node of identity id as a child, None if none.
RECURSIVE ParentOf(_, _)
ParentOf(t, id) ==
    IF t = None THEN None
    ELSE IF (t.left # None /\ t.left.id = id)
            \/ (t.right # None /\ t.right.id = id) THEN t
    ELSE IF ParentOf(t.left, id) # None THEN ParentOf(t.left, id)
    ELSE ParentOf(t.right, id)

\* What stands after the call where node n of the tree before stood: the
\* same child of n's parent, or the caller's root if n was the root.
InPlaceOf(before, n, after) ==
    LET parent == ParentOf(before, n.id)
    IN  IF parent = None THEN after
        ELSE IF parent.left # None /\ parent.left.id = n.id
        THEN NodeWithId(after, parent.id).left
        ELSE NodeWithId(after, parent.id).right

Minimum(S) == CHOOSE x \in S : \A y \in S : x <= y

(***************************************************************************)
(* C30: when remove(v) matches a node, a leaf is removed entirely (None    *)
(* stands in its place); a node with exactly one child is replaced by      *)
(* that child; a node with two children stays in place, takes the minimum  *)
(* value of its right subtree, that minimum is removed from the right      *)
(* subtree and the left subtree is left as it was.                         *)
(***************************************************************************)
C30_RemoveCases ==
    (Ran("remove") /\ NodeOf(last.pre, last.arg) # None) =>
        LET n == NodeOf(last.pre, last.arg)
            now == InPlaceOf(last.pre, n, root)
        IN  /\ NodeCount(root) = NodeCount(last.pre) - 1
            /\ (n.left = None /\ n.right = None) => now = None
            /\ (n.left = None /\ n.right # None) => now = n.right
            /\ (n.left # None /\ n.right = None) => now = n.left
            /\ HasTwoChildren(n) =>
                  /\ now # None
                  /\ now.id = n.id
                  /\ now.data = Minimum(ValuesOf(n.right))
                  /\ now.left = n.left
                  /\ ValuesOf(now.right) =
                        ValuesOf(n.right) \ {Minimum(ValuesOf(n.right))}
                  /\ NodeCount(now.right) = NodeCount(n.right) - 1

\* The removal of a node with two children that is not the root.
C30_Witness ==
    /\ Ran("remove")
    /\ last.pre.data # last.arg
    /\ HasTwoChildren(NodeOf(last.pre, last.arg))
    /\ NodeWithId(root, NodeOf(last.pre, last.arg).id) # None
    /\ last.arg \notin ValuesOf(root)

(***************************************************************************)
(* SpecBfs: a tree built by insertions, values drawn from BfsValues, and   *)
(* breadth_first_traversal run on it one iteration of its while loop at a  *)
(* time.  last holds the call: pc is "idle" when none was made, "loop"     *)
(* while the call is in its loop and "done" once it returned; queue and    *)
(* results are its local variables.  The tree is changed between calls     *)
(* only.                                                                   *)
(***************************************************************************)

\* Largest value inserted in SpecBfs; values are 1..MaxBfsVal.
MaxBfsVal == 5

BfsValues == 1..MaxBfsVal

\* Faulty variant: the right child is enqueued before the left one.
bfs_iteration_right_first(queue, results) ==
    LET node == Head(queue)
        q1 == Tail(queue)
        q2 == IF node.right # None THEN Append(q1, node.right) ELSE q1
        q3 == IF node.left # None THEN Append(q2, node.left) ELSE q2
    IN  [queue |-> q3, results |-> Append(results, node.data)]

\* One iteration of the while loop of breadth_first_traversal: the locals
\* after it.
bfs_iteration(queue, results) ==
    LET node == Head(queue)
        q1 == Tail(queue)
        q2 == IF node.left # None THEN Append(q1, node.left) ELSE q1
        q3 == IF node.right # None THEN Append(q2, node.right) ELSE q2
    IN  [queue |-> q3, results |-> Append(results, node.data)]

InitBfs ==
    /\ \E v \in BfsValues :
          /\ root = BinarySearchTreeNode(NewId(None), v)
          /\ held = {v}
    /\ last = [op |-> "__init__", pc |-> "idle", pre |-> None,
               queue |-> <<>>, results |-> <<>>, out |-> Returned(None)]
    /\ inserted = 1
    /\ duplicates = 0
    /\ pending = <<>>
    /\ removed = <<>>
    /\ TreeOnlyInit

\* root.add_child(v), between two traversals
BfsAddChild(v) ==
    /\ last.pc # "loop"
    /\ root' = add_child(root, v, NewId(root))
    /\ held' = held \cup {v}
    /\ last' = [op |-> "add_child", pc |-> "idle", pre |-> root,
                queue |-> <<>>, results |-> <<>>, out |-> Returned(None)]
    /\ NoCounters /\ NoScenario /\ TreeOnly

\* root.breadth_first_traversal(): the call, up to the while loop
BfsCall ==
    /\ last.pc # "loop"
    /\ last' = [op |-> "breadth_first_traversal", pc |-> "loop",
                pre |-> root, queue |-> <<root>>, results |-> <<>>,
                out |-> Returned(None)]
    /\ UNCHANGED <<root, held>>
    /\ NoCounters /\ NoScenario /\ TreeOnly

\* while queue: one iteration
BfsIteration ==
    /\ last.pc = "loop"
    /\ last.queue # <<>>
    /\ last' = [last EXCEPT
                   !.queue = bfs_iteration(last.queue, last.results).queue,
                   !.results = bfs_iteration(last.queue, last.results).results]
    /\ UNCHANGED <<root, held>>
    /\ NoCounters /\ NoScenario /\ TreeOnly

\* while queue: the queue is empty; return results
BfsReturn ==
    /\ last.pc = "loop"
    /\ last.queue = <<>>
    /\ last' = [last EXCEPT !.pc = "done", !.out = Returned(last.results)]
    /\ UNCHANGED <<root, held>>
    /\ NoCounters /\ NoScenario /\ TreeOnly

NextBfs ==
    \/ \E v \in BfsValues : BfsAddChild(v)
    \/ BfsCall
    \/ BfsIteration
    \/ BfsReturn

SpecBfs == InitBfs /\ [][NextBfs]_vars

(***************************************************************************)
(* Vocabulary of level order                                               *)
(***************************************************************************)
RECURSIVE Height(_)
Height(t) ==
    IF t = None THEN 0
    ELSE 1 + (IF Height(t.left) >= Height(t.right)
              THEN Height(t.left) ELSE Height(t.right))

\* The values of the nodes of t at depth d, from left to right.
RECURSIVE Level(_, _)
Level(t, d) ==
    IF t = None THEN <<>>
    ELSE IF d = 0 THEN <<t.data>>
    ELSE Level(t.left, d - 1) \o Level(t.right, d - 1)

\* The levels d, d + 1, ... of t one after the other.
RECURSIVE LevelsFrom(_, _)
LevelsFrom(t, d) ==
    IF d >= Height(t) THEN <<>> ELSE Level(t, d) \o LevelsFrom(t, d + 1)

LevelOrder(t) == LevelsFrom(t, 0)

IsPrefix(s, t) == Len(s) <= Len(t) /\ s = SubSeq(t, 1, Len(s))

NoRepeats(s) == \A i, j \in 1..Len(s) : s[i] = s[j] => i = j

\* The number of nodes of the subtrees a queue of nodes holds.
RECURSIVE NodesIn(_)
NodesIn(queue) ==
    IF queue = <<>> THEN 0 ELSE NodeCount(Head(queue)) + NodesIn(Tail(queue))

(***************************************************************************)
(* C31: breadth_first_traversal returns the values in level order: the     *)
(* root first, every node at depth d before any node at depth d + 1, the   *)
(* nodes of one level from left to right; each node appears exactly once,  *)
(* and the loop ends when the work queue is empty.  While the loop runs    *)
(* the results are a prefix of the level order, and the results and the    *)
(* subtrees still in the queue hold every node of the tree once, so every  *)
(* iteration brings the loop one node nearer to its end.                   *)
(***************************************************************************)
C31_LevelOrder ==
    /\ breadth_first_traversal(root) = LevelOrder(root)
    /\ last.op = "breadth_first_traversal" =>
          /\ IsPrefix(last.results, LevelOrder(root))
          /\ NoRepeats(last.results)
          /\ Len(last.results) + NodesIn(last.queue) = NodeCount(root)
          /\ bfs_loop(last.queue, last.results) = LevelOrder(root)
          /\ last.pc = "done" =>
                /\ last.queue = <<>>
                /\ last.out = Returned(LevelOrder(root))

\* A finished traversal of a tree with two nodes at depth 2 under different
\* parents, the left parent having a right child only.
C31_Witness ==
    /\ last.op = "breadth_first_traversal"
    /\ last.pc = "done"
    /\ HasTwoChildren(root)
    /\ root.left.left = None
    /\ root.left.right # None
    /\ root.right.left # None
    /\ Len(last.out[2]) = 5
    /\ last.out[2] # pre_order_traversal(root)

(***************************************************************************)
(* SpecQuery: the calls of Spec and, with them, a call of each traversal   *)
(* and of calculate_sum.  None of these methods assigns to a field of a    *)
(* node.                                                                   *)
(***************************************************************************)
\* root.in_order_traversal()
InOrderTraversal ==
    /\ last' = Call("in_order_traversal", 0,
                    IF root = None THEN None ELSE in_order_traversal(root))
    /\ UNCHANGED <<root, held>>
    /\ NoCounters /\ NoScenario /\ TreeOnly

\* root.pre_order_traversal()
PreOrderTraversal ==
    /\ last' = Call("pre_order_traversal", 0,
                    IF root = None THEN None ELSE pre_order_traversal(root))
    /\ UNCHANGED <<root, held>>
    /\ NoCounters /\ NoScenario /\ TreeOnly

\* root.post_order_traversal()
PostOrderTraversal ==
    /\ last' = Call("post_order_traversal", 0,
                    IF root = None THEN None ELSE post_order_traversal(root))
    /\ UNCHANGED <<root, held>>
    /\ NoCounters /\ NoScenario /\ TreeOnly

\* root.breadth_first_traversal()
BreadthFirstTraversal ==
    /\ last' = Call("breadth_first_traversal", 0,
                    IF root = None THEN None
                    ELSE breadth_first_traversal(root))
    /\ UNCHANGED <<root, held>>
    /\ NoCounters /\ NoScenario /\ TreeOnly

\* root.calculate_sum()
CalculateSum ==
    /\ last' = Call("calculate_sum", 0,
                    IF root = None THEN None ELSE calculate_sum(root))
    /\ UNCHANGED <<root, held>>
    /\ NoCounters /\ NoScenario /\ TreeOnly

NextQuery ==
    \/ \E v \in Values : Construct(v)
    \/ \E v \in Values : AddChild(v)
    \/ \E v \in Values : Remove(v)
    \/ \E v \in Values : Search(v)
    \/ FindMin
    \/ FindMax
    \/ InOrderTraversal
    \/ PreOrderTraversal
    \/ PostOrderTraversal
    \/ BreadthFirstTraversal
    \/ CalculateSum

SpecQuery == Init /\ [][NextQuery]_vars

\* Root, then left subtree, then right subtree.
RECURSIVE PreOrder(_)
PreOrder(t) ==
    IF t = None THEN <<>>
    ELSE <<t.data>> \o PreOrder(t.left) \o PreOrder(t.right)

\* Left subtree, then right subtree, then root.
RECURSIVE PostOrder(_)
PostOrder(t) ==
    IF t = None THEN <<>>
    ELSE PostOrder(t.left) \o PostOrder(t.right) \o <<t.data>>

\* The methods that only read the tree.
Queries ==
    {"in_order_traversal", "pre_order_traversal", "post_order_traversal",
     "breadth_first_traversal", "search", "find_min", "find_max",
     "calculate_sum"}

(***************************************************************************)
(* C32: pre_order_traversal returns the root's value, then the pre-order   *)
(* of the left subtree, then that of the right subtree;                    *)
(* post_order_traversal returns the post-order of the left subtree, then   *)
(* that of the right subtree, then the root's value; and no traversal, nor *)
(* search, find_min, find_max or calculate_sum, changes the tree.          *)
(***************************************************************************)
C32_PrePostOrder ==
    /\ root # None =>
          /\ pre_order_traversal(root) = PreOrder(root)
          /\ post_order_traversal(root) = PostOrder(root)
    /\ Ran("pre_order_traversal") => last.out = Returned(PreOrder(root))
    /\ Ran("post_order_traversal") => last.out = Returned(PostOrder(root))
    /\ last.op \in Queries => root = last.pre

\* A pre-order traversal of a tree of four nodes whose root has two
\* children, the left one with children of its own.
C32_Witness ==
    /\ Ran("pre_order_traversal")
    /\ HasTwoChildren(root)
    /\ root.left.left # None \/ root.left.right # None
    /\ Len(last.out[2]) = 4
    /\ last.out[2] # in_order_traversal(root)
    /\ last.out[2] # breadth_first_traversal(root)

(***************************************************************************)
(* The chaining hash table against a reference map (specification          *)
(* SpecHash).  ref holds the pairs of the reference map: a set replaces    *)
(* the pair of its key, a delete drops it.                                 *)
(***************************************************************************)
\* The lookup of key in the reference map: its value, or the sentinel.
Lookup(pairs, key) ==
    IF Bound(pairs, key)
    THEN (CHOOSE p \in pairs : p[1] = key)[2]
    ELSE NotFound

(***************************************************************************)
(* C33: after any sequence of set and delete calls on the chaining table,  *)
(* get(k) of every key k equals the lookup in a reference map the same     *)
(* calls were applied to: the value set last for k if k was not deleted    *)
(* since, the sentinel -1 otherwise.                                       *)
(***************************************************************************)
C33_RefinesMap ==
    /\ \A k \in HashKeys : __getitem__(ht, k) = Lookup(ref, k)
    /\ last.op = "get" => last.out = Returned(Lookup(ref, last.arg))

\* The delete of a bound key whose bucket keeps two other keys, the map
\* binding three keys after it.
C33_Witness ==
    /\ last.op = "del"
    /\ Bound(last.was, last.arg)
    /\ Len(BucketOf(ht, last.arg)) = 2
    /\ Cardinality(ref) = 3
    /\ __getitem__(ht, last.arg) = NotFound

(***************************************************************************)
(* C34: in the chaining table the number of buckets is fixed at            *)
(* construction and the buckets share no state: set(k, v) and delete(k)    *)
(* change only the bucket at index get_hash(k), every stored pair lives in *)
(* the bucket whose index is get_hash of its key, and get changes nothing. *)
(***************************************************************************)
C34_BucketFrame ==
    /\ Len(ht.data) = ht.size
    /\ last.op # "__init__" =>
          /\ ht.size = last.pre.size
          /\ Len(last.pre.data) = Len(ht.data)
    /\ last.op \in {"set", "del"} =>
          \A i \in 1..ht.size :
              i # get_hash(ht, last.arg) + 1 => ht.data[i] = last.pre.data[i]
    /\ \A i \in 1..ht.size : \A j \in 1..Len(ht.data[i]) :
          get_hash(ht, ht.data[i][j][1]) + 1 = i
    /\ last.op \in {"get", "get_hash"} => ht = last.pre

\* A set that adds a pair to one bucket of a table of three while another
\* bucket holds pairs.
C34_Witness ==
    /\ last.op = "set"
    /\ ht.size = 3
    /\ Len(BucketOf(ht, last.arg)) = Len(BucketOf(last.pre, last.arg)) + 1
    /\ \E i \in 1..ht.size :
          /\ i # get_hash(ht, last.arg) + 1
          /\ ht.data[i] # <<>>

====
